---- MODULE Spec2Model ----
(***************************************************************************)
(* A model of the curation pipeline of ai-newsletter-automation:           *)
(*   dedup.py          deduplicate (title clustering)                      *)
(*   runner.py         process_section (retry loop), main (section pool)   *)
(*   search.py         search_stream and the section collectors            *)
(*   source_quality.py SourceTracker (file-backed ledger)                  *)
(* Each part has its own specification over its own group of variables;    *)
(* the variables of the other parts stay at their initial values.          *)
(***************************************************************************)
EXTENDS Integers, Sequences, FiniteSets, TLC

VARIABLES
    \* ---- dedup.py
    articles,      \* the list handed to deduplicate
    result,        \* deduplicate(articles)
    rerun,         \* deduplicate(result)
    dpc,           \* "input" -> "once" -> "twice"
    \* ---- runner.py: one call of process_section
    caller,        \* "cli" (main) or "serverless" (api/generate_section.py)
    key,           \* the section key
    days,          \* the caller's days argument
    max_per_stream,\* the caller's limit override, or None
    attempt,       \* the loop variable of the retry loop
    pc,            \* the stage about to run, or "returned" / "raised"
    run_cfg,       \* the per-attempt copy of the section's config
    collected,     \* what the collector's sources did in this attempt
    hits,          \* the candidate list (ids of ArticleHits)
    verified,      \* the list of VerifiedArticles
    items,         \* the list of SummaryItems
    ret,           \* the returned list, once pc = "returned"
    recorded,      \* the (url, score) pairs handed to SourceTracker.record
    attempts,      \* history: per attempt, its config and date-filtered items
    passes,        \* history: the filtering and ordering passes run in this attempt
    \* ---- runner.py: main
    mpc,           \* "pool" (inside the executor block) -> "reassemble" -> "done"
    started,       \* how many sections of SECTION_ORDER a worker has taken up
    running,       \* the sections whose process_section is executing
    outcome,       \* per section, what its process_section did
    results,       \* the dict results: a function on the keys handled so far
    sections,      \* the OrderedDict sections: a list of <<key, items>>
    overtaken,     \* history: some future completed before one submitted earlier
    \* ---- source_quality.py: SourceTracker over its two files
    now,           \* time.time(), in seconds
    ticks,         \* how often the clock has moved
    calls,         \* how many record / record_feedback calls have begun
    quality_file,  \* logs/source_quality.json: a list of entries
    feedback_file, \* logs/feedback.json: a list of entries
    writer,        \* per caller, its position inside record / record_feedback
    serial_quality,  \* history: the quality file had every call been one transaction
    serial_feedback, \* history: the feedback file had every call been one transaction
    \* ---- rerank.py: one call of rerank_articles
    rr_pc,         \* "start" -> "calling" -> "done"
    rr_articles,   \* the list handed to rerank_articles
    rr_section,    \* the SectionConfig handed to it
    rr_attempt,    \* the loop variable of the rate-limit loop
    rr_calls,      \* how many generate_content calls were made
    rr_raw,        \* the reply of the scoring call, once there is one
    rr_scores,     \* _parse_scores of the reply
    rr_failed,     \* whether the except branch ran
    rr_result,     \* the returned list, once rr_pc = "done"
    \* ---- summarize.py: one call of summarize_section
    sm_pc,         \* "start" -> "posting" -> "returned" / "http_error" -> ... -> "done" / "escaped"
    sm_model,      \* the model argument
    sm_has_articles,\* whether the articles argument is non-empty
    sm_idx,        \* the position of current_model in models_to_try
    sm_attempt,    \* the loop variable of the JSON repair loop
    sm_messages,   \* the messages list of the current model
    sm_raw,        \* the reply _groq_request returned, once sm_pc = "returned"
    sm_log,        \* history: per _groq_request call its model, messages and outcome
    sm_seen,       \* history: the kinds of response the backend has given so far
    sm_result,     \* the returned list, once sm_pc = "done"
    gq_posts,      \* how many requests the current _groq_request call has sent
    gq_last,       \* the last response of the current call, or nothing
    gq_wait,       \* the last sleep of the current call, 0 before any
    \* ---- runner.py: the verification tasks of process_hits and the skip log
    hit,           \* per task, the ArticleHit handed to _process_single_hit
    tpc,           \* per task, its position inside _process_single_hit / _log_skipped
    tverify,       \* per task, what verify_link did
    treason,       \* per task, the reasons it has passed to _log_skipped
    tresult,       \* per task, what _process_single_hit returns
    log_lock,      \* the holder of _LOG_LOCK, 0 when it is free
    skip_log,      \* the primary skip log, a list of records
    tmp_log,       \* the skip log under /tmp
    \* ---- one call of a pure function of the pipeline, checked on its own
    fn_pc,         \* "ready" -> "returned" (-> "again" where the function is applied twice)
    fn_args,       \* the arguments of the call, a record
    fn_ret,        \* what the call returned
    fn_ret2,       \* what the second application returned
    \* ---- runner.py: the main thread of process_hits
    ph_pc,         \* "collecting" (the as_completed loop) -> "shutdown" (leaving the with block) -> "returned"
    ph_limit,      \* the argument limit
    ph_consumed,   \* the tasks whose future the loop has taken
    ph_verified,   \* the list verified
    ph_ret         \* what process_hits returns

dedupVars == <<articles, result, rerun, dpc>>

sectionVars == <<caller, key, days, max_per_stream, attempt, pc, run_cfg,
                 collected, hits, verified, items, ret, recorded, attempts,
                 passes>>

mainVars == <<mpc, started, running, outcome, results, sections, overtaken>>

ledgerVars == <<now, ticks, calls, quality_file, feedback_file, writer,
                serial_quality, serial_feedback>>

rerankVars == <<rr_pc, rr_articles, rr_section, rr_attempt, rr_calls, rr_raw,
                rr_scores, rr_failed, rr_result>>

summarizeVars == <<sm_pc, sm_model, sm_has_articles, sm_idx, sm_attempt,
                   sm_messages, sm_raw, sm_log, sm_seen, sm_result, gq_posts,
                   gq_last, gq_wait>>

hitsVars == <<hit, tpc, tverify, treason, tresult, log_lock, skip_log,
              tmp_log>>

callVars == <<fn_pc, fn_args, fn_ret, fn_ret2>>

poolVars == <<ph_pc, ph_limit, ph_consumed, ph_verified, ph_ret>>

vars == <<dedupVars, sectionVars, mainVars, ledgerVars, rerankVars,
          summarizeVars, hitsVars, callVars, poolVars>>

\* What each part leaves alone.
outsideDedup == <<sectionVars, mainVars, ledgerVars, rerankVars,
                  summarizeVars, hitsVars, callVars, poolVars>>
outsideSection == <<dedupVars, mainVars, ledgerVars, rerankVars,
                    summarizeVars, hitsVars, callVars, poolVars>>
outsideMain == <<dedupVars, sectionVars, ledgerVars, rerankVars,
                 summarizeVars, hitsVars, callVars, poolVars>>
outsideLedger == <<dedupVars, sectionVars, mainVars, rerankVars,
                   summarizeVars, hitsVars, callVars, poolVars>>
outsideRerank == <<dedupVars, sectionVars, mainVars, ledgerVars,
                   summarizeVars, hitsVars, callVars, poolVars>>
outsideSummarize == <<dedupVars, sectionVars, mainVars, ledgerVars,
                      rerankVars, hitsVars, callVars, poolVars>>
outsideHits == <<dedupVars, sectionVars, mainVars, ledgerVars, rerankVars,
                 summarizeVars, callVars, poolVars>>
outsideCall == <<dedupVars, sectionVars, mainVars, ledgerVars, rerankVars,
                 summarizeVars, hitsVars, poolVars>>
outsidePool == <<dedupVars, sectionVars, mainVars, ledgerVars, rerankVars,
                 summarizeVars, hitsVars, callVars>>

\* None where the other values are strings.
None == "None"

\* An Optional[int]: <<>> for None, <<n>> for n.  Null is also the value of a
\* variable that holds a record or nothing.
Null == <<>>
Some(n) == <<n>>

Min(a, b) == IF a <= b THEN a ELSE b
Max(a, b) == IF a >= b THEN a ELSE b

RECURSIVE SetToSortedSeq(_)
SetToSortedSeq(S) ==
    IF S = {} THEN <<>>
    ELSE LET m == CHOOSE x \in S : \A y \in S : x <= y
         IN <<m>> \o SetToSortedSeq(S \ {m})

\* The parts that a specification does not run stay in these states.
DedupIdle ==
    /\ articles = <<>>
    /\ result = <<>>
    /\ rerun = <<>>
    /\ dpc = "idle"

SectionIdle ==
    /\ caller = None
    /\ key = None
    /\ days = 0
    /\ max_per_stream = Null
    /\ attempt = 0
    /\ pc = "idle"
    /\ run_cfg = Null
    /\ collected = Null
    /\ hits = <<>>
    /\ verified = <<>>
    /\ items = <<>>
    /\ ret = <<>>
    /\ recorded = <<>>
    /\ attempts = <<>>
    /\ passes = <<>>

MainIdle ==
    /\ mpc = "idle"
    /\ started = 0
    /\ running = {}
    /\ outcome = <<>>
    /\ results = <<>>
    /\ sections = <<>>
    /\ overtaken = FALSE

LedgerIdle ==
    /\ now = 0
    /\ ticks = 0
    /\ calls = 0
    /\ quality_file = <<>>
    /\ feedback_file = <<>>
    /\ writer = <<>>
    /\ serial_quality = <<>>
    /\ serial_feedback = <<>>

RerankIdle ==
    /\ rr_pc = "idle"
    /\ rr_articles = <<>>
    /\ rr_section = Null
    /\ rr_attempt = 0
    /\ rr_calls = 0
    /\ rr_raw = Null
    /\ rr_scores = <<>>
    /\ rr_failed = FALSE
    /\ rr_result = <<>>

SummarizeIdle ==
    /\ sm_pc = "idle"
    /\ sm_model = None
    /\ sm_has_articles = FALSE
    /\ sm_idx = 0
    /\ sm_attempt = 0
    /\ sm_messages = <<>>
    /\ sm_raw = Null
    /\ sm_log = <<>>
    /\ sm_seen = {}
    /\ sm_result = <<>>
    /\ gq_posts = 0
    /\ gq_last = Null
    /\ gq_wait = 0

HitsIdle ==
    /\ hit = <<>>
    /\ tpc = <<>>
    /\ tverify = <<>>
    /\ treason = <<>>
    /\ tresult = <<>>
    /\ log_lock = 0
    /\ skip_log = <<>>
    /\ tmp_log = <<>>

CallIdle ==
    /\ fn_pc = "idle"
    /\ fn_args = <<>>
    /\ fn_ret = <<>>
    /\ fn_ret2 = <<>>

PoolIdle ==
    /\ ph_pc = "idle"
    /\ ph_limit = 0
    /\ ph_consumed = {}
    /\ ph_verified = <<>>
    /\ ph_ret = <<>>

(***************************************************************************)
(* dedup.py                                                                *)
(***************************************************************************)

\* Bounds of the deduplicator's inputs.
MaxArticles == 3
MaxContentLen == 1

\* _SIMILARITY_THRESHOLD = 0.6, kept as the fraction 6/10.
SIMILARITY_THRESHOLD_NUM == 6
SIMILARITY_THRESHOLD_DEN == 10

\* Titles are sequences of characters.  "a" ~ "ab" ~ "b" but not "a" ~ "b";
\* "AB" equals "ab" once lower-cased; "cd" resembles none of the others.
Titles == { <<"a">>, <<"a", "b">>, <<"b">>, <<"A", "B">>, <<"c", "d">> }

\* str.lower() on the characters the titles use.
lower_char(c) ==
    CASE c = "A" -> "a"
      [] c = "B" -> "b"
      [] c = "G" -> "g"
      [] c = "I" -> "i"
      [] c = "O" -> "o"
      [] c = "P" -> "p"
      [] c = "T" -> "t"
      [] OTHER -> c

lower(s) == [i \in 1..Len(s) |-> lower_char(s[i])]

\* difflib.SequenceMatcher.find_longest_match without junk: the longest block
\* a[i+1..i+k] = b[j+1..j+k] inside a[alo+1..ahi], b[blo+1..bhi]; of the
\* longest blocks the one starting earliest in a, then earliest in b.
MatchingBlocks(a, b, alo, ahi, blo, bhi) ==
    { m \in (alo..(ahi - 1)) \X (blo..(bhi - 1)) \X (1..Min(ahi - alo, bhi - blo)) :
        /\ m[1] + m[3] <= ahi
        /\ m[2] + m[3] <= bhi
        /\ \A d \in 1..m[3] : a[m[1] + d] = b[m[2] + d] }

find_longest_match(a, b, alo, ahi, blo, bhi) ==
    LET B == MatchingBlocks(a, b, alo, ahi, blo, bhi)
    IN IF B = {} THEN <<alo, blo, 0>>
       ELSE CHOOSE m \in B : \A n \in B :
                \/ m[3] > n[3]
                \/ m[3] = n[3] /\ m[1] < n[1]
                \/ m[3] = n[3] /\ m[1] = n[1] /\ m[2] <= n[2]

\* SequenceMatcher.get_matching_blocks: the longest match, then the same to
\* its left and to its right; the sum of the block sizes.
RECURSIVE matches(_, _, _, _, _, _)
matches(a, b, alo, ahi, blo, bhi) ==
    IF alo >= ahi \/ blo >= bhi THEN 0
    ELSE LET m == find_longest_match(a, b, alo, ahi, blo, bhi)
         IN IF m[3] = 0 THEN 0
            ELSE m[3] + matches(a, b, alo, m[1], blo, m[2])
                      + matches(a, b, m[1] + m[3], ahi, m[2] + m[3], bhi)

\* _title_similarity(a, b) >= threshold, with ratio = 2*M/T (1.0 when T = 0).
title_similar(a, b) ==
    LET la == lower(a)
        lb == lower(b)
        T == Len(la) + Len(lb)
        M == matches(la, lb, 0, Len(la), 0, Len(lb))
    IN IF T = 0 THEN TRUE
       ELSE 2 * M * SIMILARITY_THRESHOLD_DEN >= SIMILARITY_THRESHOLD_NUM * T

\* _best_article: max(group, key=len(content)) returns the first maximum.
best_article_last(group) ==
    LET k == CHOOSE i \in 1..Len(group) :
                /\ \A j \in 1..Len(group) : Len(group[j].content) <= Len(group[i].content)
                /\ \A j \in (i + 1)..Len(group) : Len(group[j].content) < Len(group[i].content)
    IN group[k]

best_article(group) ==
    LET k == CHOOSE i \in 1..Len(group) :
                /\ \A j \in 1..Len(group) : Len(group[j].content) <= Len(group[i].content)
                /\ \A j \in 1..(i - 1) : Len(group[j].content) < Len(group[i].content)
    IN group[k]

\* The clustering loop of deduplicate: i runs over the list; an unassigned i
\* opens a cluster and collects every later unassigned j similar to i.
RECURSIVE build_clusters(_, _, _, _)
build_clusters(arts, i, assigned, clusters) ==
    IF i > Len(arts) THEN clusters
    ELSE IF i \in assigned THEN build_clusters(arts, i + 1, assigned, clusters)
    ELSE LET members == { j \in (i + 1)..Len(arts) :
                            /\ j \notin assigned
                            /\ title_similar(arts[i].title, arts[j].title) }
             cluster == <<i>> \o SetToSortedSeq(members)
         IN build_clusters(arts, i + 1, assigned \cup {i} \cup members,
                           Append(clusters, cluster))

deduplicate(arts) ==
    IF Len(arts) <= 1 THEN arts
    ELSE LET clusters == build_clusters(arts, 1, {}, <<>>)
         IN [c \in 1..Len(clusters) |->
                best_article([k \in 1..Len(clusters[c]) |-> arts[clusters[c][k]]])]

\* A VerifiedArticle; the url of the i-th input article is i, so every
\* article of the input list is a distinct object.
ContentOfLen(n) == [k \in 1..n |-> "x"]

\* The three articles of test_deduplicate_removes_near_duplicates: their
\* titles, and contents of 35, 5 and 15 characters.
ExampleTitle1 ==
    << "O", "p", "e", "n", "A", "I", " ", "l", "a", "u", "n", "c", "h", "e",
       "s", " ", "G", "P", "T", "-", "5" >>

ExampleTitle2 ==
    << "O", "p", "e", "n", "A", "I", " ", "l", "a", "u", "n", "c", "h", "e",
       "s", " ", "G", "P", "T", "-", "5", " ", "m", "o", "d", "e", "l", " ",
       "t", "o", "d", "a", "y" >>

ExampleTitle3 ==
    << "T", "o", "t", "a", "l", "l", "y", " ", "d", "i", "f", "f", "e", "r",
       "e", "n", "t", " ", "a", "r", "t", "i", "c", "l", "e", " ", "a", "b",
       "o", "u", "t", " ", "f", "a", "r", "m", "i", "n", "g" >>

ExampleArticles ==
    << [title |-> ExampleTitle1, url |-> 1, content |-> ContentOfLen(35)],
       [title |-> ExampleTitle2, url |-> 2, content |-> ContentOfLen(5)],
       [title |-> ExampleTitle3, url |-> 3, content |-> ContentOfLen(15)] >>

DedupInit ==
    /\ \/ \E n \in 0..MaxArticles :
            \E t \in [1..n -> Titles] :
              \E c \in [1..n -> 0..MaxContentLen] :
                articles = [i \in 1..n |->
                               [title |-> t[i], url |-> i, content |-> ContentOfLen(c[i])]]
       \/ articles = ExampleArticles
    /\ result = <<>>
    /\ rerun = <<>>
    /\ dpc = "input"
    /\ SectionIdle
    /\ MainIdle
    /\ LedgerIdle
    /\ RerankIdle
    /\ SummarizeIdle
    /\ HitsIdle
    /\ CallIdle
    /\ PoolIdle

Deduplicate ==
    /\ dpc = "input"
    /\ result' = deduplicate(articles)
    /\ dpc' = "once"
    /\ UNCHANGED <<articles, rerun>>
    /\ UNCHANGED outsideDedup

DeduplicateAgain ==
    /\ dpc = "once"
    /\ rerun' = deduplicate(result)
    /\ dpc' = "twice"
    /\ UNCHANGED <<articles, result>>
    /\ UNCHANGED outsideDedup

DedupNext == Deduplicate \/ DeduplicateAgain

SpecDedup == DedupInit /\ [][DedupNext]_vars

\* C1: deduplicate is idempotent: running it on its own output returns that
\* output unchanged, same elements in the same order.
C1_DedupIdempotent == dpc = "twice" => rerun = result

\* C2: deduplicate keeps the input order of the articles it keeps: a kept
\* article that stands before another kept one in the input stands before
\* it in the output (url is the input position).
C2_DedupKeepsInputOrder ==
    dpc # "input" =>
        \A p, q \in 1..Len(result) : p < q => result[p].url < result[q].url

\* The articles that open a cluster: those that no earlier opener resembles.
RECURSIVE IsLeader(_, _)
IsLeader(arts, j) ==
    ~\E i \in 1..(j - 1) : IsLeader(arts, i) /\ title_similar(arts[i].title, arts[j].title)

\* The cluster an article belongs to, named by its opener.
LeaderOf(arts, j) ==
    IF IsLeader(arts, j) THEN j
    ELSE CHOOSE i \in 1..(j - 1) :
            /\ IsLeader(arts, i) /\ title_similar(arts[i].title, arts[j].title)
            /\ \A l \in 1..(i - 1) :
                 ~(IsLeader(arts, l) /\ title_similar(arts[l].title, arts[j].title))

\* The member of the cluster of opener i that is kept.
KeptOf(arts, i) ==
    LET members == { j \in 1..Len(arts) : LeaderOf(arts, j) = i }
    IN CHOOSE k \in members :
         \A j \in members :
            \/ Len(arts[j].content) < Len(arts[k].content)
            \/ Len(arts[j].content) = Len(arts[k].content) /\ k <= j

\* C14: every article joins the cluster of the earliest cluster opener
\* before it that its title resembles, or opens one; the result holds, per
\* cluster in the order the clusters were opened, the member with the
\* longest content, the earliest on a tie.  The three test titles give 2.
C14_DedupClusters ==
    dpc # "input" =>
        /\ LET leaders == SetToSortedSeq({ j \in 1..Len(articles) : IsLeader(articles, j) })
           IN result = [c \in 1..Len(leaders) |-> articles[KeptOf(articles, leaders[c])]]
        /\ articles = ExampleArticles => Len(result) = 2

\* The test's three articles went through deduplicate.
C14_Witness ==
    /\ dpc = "once"
    /\ articles = ExampleArticles
    /\ Len(result) = 2
    /\ result[1].url = 1
    /\ result[2].url = 3

(***************************************************************************)
(* search.py: the section configurations                                   *)
(***************************************************************************)

SECTION_ORDER == << "trending", "canadian", "global", "events", "events_public",
                    "agri", "ai_progress", "research_plain", "deep_dive" >>

SectionKeys == { SECTION_ORDER[i] : i \in 1..Len(SECTION_ORDER) }

\* A SectionConfig, with the fields the pipeline's control flow reads.
SectionConfig(limit, d, threshold, has_reject, has_boost) ==
    [ limit |-> limit, days |-> d, relevance_threshold |-> threshold,
      reject_keywords |-> has_reject, boost_keywords |-> has_boost ]

DEFAULT_STREAMS ==
    [ k \in SectionKeys |->
        CASE k = "trending"       -> SectionConfig(8, Null, 7, FALSE, TRUE)
          [] k = "canadian"       -> SectionConfig(5, Null, 6, FALSE, TRUE)
          [] k = "global"         -> SectionConfig(5, Null, 6, TRUE, TRUE)
          [] k = "events"         -> SectionConfig(4, Null, 5, FALSE, FALSE)
          [] k = "events_public"  -> SectionConfig(4, Null, 5, FALSE, FALSE)
          [] k = "agri"           -> SectionConfig(3, Null, 5, TRUE, TRUE)
          [] k = "ai_progress"    -> SectionConfig(3, Some(14), 6, FALSE, TRUE)
          [] k = "research_plain" -> SectionConfig(3, Some(14), 5, FALSE, TRUE)
          [] k = "deep_dive"      -> SectionConfig(2, Some(14), 7, FALSE, TRUE) ]

\* Python truthiness of an Optional[int]: None and 0 are false.
Truthy(x) == x # Null /\ x # Some(0)

\* Python's `a or b` for an Optional[int] a and an int b.
Or(a, b) == IF Truthy(a) THEN a[1] ELSE b

\* get_streams: a copy of every default, its limit overridden when
\* custom_limits is truthy.
get_streams(custom_limits) ==
    [ k \in SectionKeys |->
        IF Truthy(custom_limits)
        THEN [DEFAULT_STREAMS[k] EXCEPT !.limit = custom_limits[1]]
        ELSE DEFAULT_STREAMS[k] ]

\* How the collector of a section calls search_stream: "unguarded" (the call
\* stands outside any try), "guarded" (inside try/except), "none" (the
\* collector does not call search_stream; events_public posts its own
\* request inside a try).
SearchCall(k) ==
    CASE k \in {"trending", "canadian", "agri", "global", "ai_progress", "deep_dive"}
            -> "unguarded"
      [] k = "events" -> "guarded"
      [] OTHER -> "none"

\* Whether the collector of a section reads feeds besides the search API.
HasFeeds(k) == k # "events_public"

(***************************************************************************)
(* The candidates.  A hit is named by its id; its fields are fixed by id.  *)
(***************************************************************************)

\* Bounds of one call of process_section.
MaxHits == 3
MaxLLMObjects == 2

HitIds == 1..MaxHits

\* Odd ids come from a feed, even ids from the search API.
FromFeed(i) == i % 2 = 1

\* ArticleHit.source
HitSource(i) ==
    CASE i % 4 = 1 -> "Google Alert"
      [] i % 4 = 3 -> "RSS"
      [] OTHER -> None

\* The age in days of ArticleHit.published, None when it does not parse.
HitAge(i) ==
    CASE i % 4 = 1 -> Some(1)
      [] i % 4 = 2 -> Some(3)
      [] i % 4 = 3 -> Null
      [] OTHER -> Some(6)

\* Whether title + snippet contain one of the section's reject keywords.
HitRejected(i) == i % 4 = 3

\* The number of the section's boost keywords in title + snippet.
HitBoostCount(i) ==
    CASE i % 8 = 2 -> 2
      [] i % 4 = 0 -> 1
      [] OTHER -> 0

\* SourceTracker.get_boost(hit.url) as the ledger stands, in fifths.
HitQualityBoost(i) == IF i % 4 = 2 THEN 3 ELSE 0

HitTitle(i) ==
    CASE i % 4 = 1 -> <<"a">>
      [] i % 4 = 2 -> <<"c", "d">>
      [] i % 4 = 3 -> <<"a", "b">>
      [] OTHER -> <<"b">>

\* The length of the text scraped from the hit's page.
HitContentLen(i) == IF i % 2 = 0 THEN 1 ELSE 0

SeqSet(seq) == { seq[i] : i \in 1..Len(seq) }

\* sorted(seq, key=...): ascending by key, equal keys in input order; K maps
\* each element of seq to its key.
sorted_by(seq, K) ==
    LET n == Len(seq)
        rank(i) == Cardinality({ j \in 1..n :
                        \/ K[seq[j]] < K[seq[i]]
                        \/ K[seq[j]] = K[seq[i]] /\ j < i }) + 1
    IN [r \in 1..n |-> seq[CHOOSE i \in 1..n : rank(i) = r]]

\* _filter_by_keywords
filter_by_keywords(hs, reject_keywords) ==
    IF ~reject_keywords THEN hs
    ELSE SelectSeq(hs, LAMBDA h : ~HitRejected(h))

\* _boost_by_keywords: sorted(hits, key=score, reverse=True)
boost_by_keywords(hs, boost_keywords) ==
    IF ~boost_keywords THEN hs
    ELSE sorted_by(hs, [h \in SeqSet(hs) |-> 0 - HitBoostCount(h)])

\* _boost_by_source_quality: sorted(hits, key=get_boost, reverse=True)
boost_by_source_quality(hs) == sorted_by(hs, [h \in SeqSet(hs) |-> 0 - HitQualityBoost(h)])

\* _SOURCE_PRIORITY.get(h.source or "", _DEFAULT_SOURCE_PRIORITY)
DEFAULT_SOURCE_PRIORITY == 5

source_priority(h) ==
    CASE HitSource(h) = "Google Alert" -> 0
      [] HitSource(h) \in {"RSS", "arXiv", "PapersWithCode"} -> 1
      [] OTHER -> DEFAULT_SOURCE_PRIORITY

\* _sort_by_source_priority
sort_by_source_priority(hs) == sorted_by(hs, [h \in SeqSet(hs) |-> source_priority(h)])

\* freshness(h) * 2 * d for a window of d > 0 days:
\* 0.5 for an undated hit, max(0, 1 - age/d) otherwise.
freshness2_undated_last(h, d) ==
    IF HitAge(h) = Null THEN 0 ELSE 2 * Max(0, d - HitAge(h)[1])

freshness2(h, d) ==
    IF HitAge(h) = Null THEN d ELSE 2 * Max(0, d - HitAge(h)[1])

\* _apply_time_decay
apply_time_decay(hs, d) ==
    IF hs = <<>> \/ d <= 0 THEN hs
    ELSE sorted_by(hs, [h \in SeqSet(hs) |-> 0 - freshness2(h, d)])

(***************************************************************************)
(* runner.py: process_section                                              *)
(***************************************************************************)

\* Settings.run_days, the default of RUN_DAYS.
RUN_DAYS == 7

\* max_attempts of process_section.
max_attempts == 1

\* The values a caller passes for days: a usual window, none, a long one.
DaysArguments == {0, 7, 31}

\* The values a caller passes for the limit override.
LimitOverrides == {Null, Some(1)}

\* The Relevance values the summarizer LLM writes: below every section's
\* threshold, inside 1..10 above every threshold, and outside 1..10.
LLMRelevance == {4, 9, 15}

\* The objects of an LLM reply: Live_Link empty or an article URL, a
\* Relevance, and a Date that is absent or older than any window.
LLMObjects ==
    [ Live_Link : {"", "https://example.com/a"}, Relevance : LLMRelevance,
      Date : {None, "old"} ]

SeqsUpTo(S, n) == UNION { [1..m -> S] : m \in 0..n }

\* The lists of n distinct elements of S.
Arrangements(S, n) ==
    { f \in [1..n -> S] : \A i, j \in 1..n : i # j => f[i] # f[j] }

Ascending(S) == SetToSortedSeq(S)

Prefix(seq, n) == SubSeq(seq, 1, Min(Len(seq), Max(n, 0)))

\* The VerifiedArticle _process_single_hit builds from hit i;
\* scraped is the date extract_metadata found: None, or "old".
VerifiedArticle(i, scraped) ==
    [ title |-> HitTitle(i), url |-> i, content |-> ContentOfLen(HitContentLen(i)),
      scraped_published_date |-> scraped ]

\* _filter_verified_articles_by_date: drops what is dated before the cutoff.
filter_verified_articles_by_date(arts) ==
    SelectSeq(arts, LAMBDA a : a.scraped_published_date # "old")

\* The scores the reranker LLM gives.
RerankScores == {3, 8}

\* rerank_articles after a successful scoring call: keep score >= threshold,
\* sort by descending score, equal scores in input order.
rerank_by_scores(arts, scores, threshold) ==
    LET idx == SelectSeq([i \in 1..Len(arts) |-> i], LAMBDA i : scores[i] >= threshold)
        ordered == sorted_by(idx, [i \in SeqSet(idx) |-> 0 - scores[i]])
    IN [k \in 1..Len(ordered) |-> arts[ordered[k]]]

\* obj.get("Relevance", 5)
DEFAULT_RELEVANCE == 5

\* dict.get(field, default) on a parsed JSON object.
obj_get(obj, field, default) == IF field \in DOMAIN obj THEN obj[field] ELSE default

\* The SummaryItem _parse_json builds from an object and its relevance.
SummaryItem(obj, relevance) ==
    [ Headline |-> obj_get(obj, "Headline", ""),
      Live_Link |-> obj_get(obj, "Live_Link", ""),
      Date |-> obj_get(obj, "Date", None),
      Relevance |-> relevance ]

\* _parse_json: an item for each object whose Relevance reaches the
\* threshold, in the order of the parsed list.
parse_json_above(data, relevance_threshold) ==
    LET relevance(obj) == obj_get(obj, "Relevance", DEFAULT_RELEVANCE)
        kept == SelectSeq(data, LAMBDA obj : relevance(obj) > relevance_threshold)
    IN  [k \in 1..Len(kept) |-> SummaryItem(kept[k], relevance(kept[k]))]

parse_json(data, relevance_threshold) ==
    LET relevance(obj) == obj_get(obj, "Relevance", DEFAULT_RELEVANCE)
        kept == SelectSeq(data, LAMBDA obj : ~(relevance(obj) < relevance_threshold))
    IN  [k \in 1..Len(kept) |-> SummaryItem(kept[k], relevance(kept[k]))]

\* _filter_items_by_date: an item without a Date is kept, an old one dropped.
filter_items_by_date(its) == SelectSeq(its, LAMBDA it : it.Date # "old")

\* final_items = [item for item in items if item.Live_Link]
FinalItemsUnfiltered(its) == its

FinalItems(its) == SelectSeq(its, LAMBDA it : it.Live_Link # "")

\* The (url, score) pairs of the tracker.record calls for the returned items.
Recordings(final) ==
    LET rec == SelectSeq(final, LAMBDA it : it.Live_Link # "" /\ it.Relevance # 0)
    IN [k \in 1..Len(rec) |-> <<rec[k].Live_Link, rec[k].Relevance>>]

SectionInit ==
    /\ caller \in {"cli", "serverless"}
    /\ key \in SectionKeys
    /\ \/ caller = "cli" /\ \E since_days \in {Null} \cup { Some(d) : d \in DaysArguments } :
                               days = Or(since_days, RUN_DAYS)
       \/ caller = "serverless" /\ days \in DaysArguments
    /\ max_per_stream \in LimitOverrides
    /\ attempt = 0
    /\ pc = "loop"
    /\ run_cfg = Null
    /\ collected = Null
    /\ hits = <<>>
    /\ verified = <<>>
    /\ items = <<>>
    /\ ret = <<>>
    /\ recorded = <<>>
    /\ attempts = <<>>
    /\ passes = <<>>
    /\ DedupIdle
    /\ MainIdle
    /\ LedgerIdle
    /\ RerankIdle
    /\ SummarizeIdle
    /\ HitsIdle
    /\ CallIdle
    /\ PoolIdle

\* The head of the retry loop: the settings of this attempt.
BeginAttempt ==
    /\ pc = "loop"
    /\ attempt < max_attempts
    /\ LET cfg == get_streams(max_per_stream)[key]
           multiplier == 1 + attempt
           current_days == Or(cfg.days, days) * multiplier
           current_threshold ==
               IF attempt = 2 THEN Max(4, cfg.relevance_threshold - 2)
               ELSE cfg.relevance_threshold
           new_cfg == [cfg EXCEPT !.days = Some(current_days),
                                  !.relevance_threshold = current_threshold]
       IN /\ run_cfg' = new_cfg
          /\ attempts' = Append(attempts,
                 [attempt |-> attempt, cfg |-> new_cfg, items |-> <<>>, done |-> FALSE])
    /\ pc' = "Collecting"
    /\ passes' = <<>>
    /\ UNCHANGED <<caller, key, days, max_per_stream, attempt, collected, hits,
                   verified, items, ret, recorded>>
    /\ UNCHANGED outsideSection

\* return [] after the loop.
ReturnEmpty ==
    /\ pc = "loop"
    /\ attempt >= max_attempts
    /\ ret' = <<>>
    /\ pc' = "returned"
    /\ UNCHANGED <<passes, caller, key, days, max_per_stream, attempt, run_cfg, collected,
                   hits, verified, items, recorded, attempts>>
    /\ UNCHANGED outsideSection

\* What search_stream returns for the results S: its own keyword boost.
search_stream_hits(k, S) ==
    boost_by_keywords(Ascending(S),
        k \notin {"trending", "events"} /\ DEFAULT_STREAMS[k].boost_keywords)

\* The passes of search_stream that do work on the results, in its order:
\* the keyword passes return at once without keywords; the collectors of
\* trending and events pass configurations of their own, without keywords;
\* those of events_public and research_plain do not call search_stream.
search_stream_passes(k) ==
    LET own == k \notin {"trending", "events"}
    IN  IF SearchCall(k) = "none" THEN <<>>
        ELSE <<"filter_blocked", "filter_by_date">>
             \o (IF own /\ DEFAULT_STREAMS[k].reject_keywords
                 THEN <<"filter_by_keywords">> ELSE <<>>)
             \o (IF own /\ DEFAULT_STREAMS[k].boost_keywords
                 THEN <<"boost_by_keywords">> ELSE <<>>)

\* The curation passes of process_section that do work on hs, in its order.
curation_passes(cfg, hs) ==
    (IF cfg.reject_keywords THEN <<"filter_by_keywords">> ELSE <<>>)
    \o (IF cfg.boost_keywords THEN <<"boost_by_keywords">> ELSE <<>>)
    \o <<"boost_by_source_quality", "sort_by_source_priority">>
    \o (IF hs = <<>> \/ cfg.days[1] <= 0 THEN <<>> ELSE <<"apply_time_decay">>)

\* 1. Collection: the section's collector reads its feeds (a feed that fails
\* gives nothing) and calls search_stream, whose request may fail.
Collect ==
    /\ pc = "Collecting"
    /\ \E F \in SUBSET { i \in HitIds : FromFeed(i) /\ HasFeeds(key) },
          S \in SUBSET { i \in HitIds : ~FromFeed(i) /\ key # "research_plain" },
          search \in {"ok", "failed"} :
          LET feed_hits == Ascending(F)
              gathered == IF key = "deep_dive" THEN <<>> ELSE feed_hits
              found == search_stream_hits(key, S)
              all == IF key = "deep_dive" THEN found \o feed_hits
                     ELSE feed_hits \o found
          IN /\ search = "failed" => S = {}
             /\ key = "research_plain" => search = "ok"
             /\ collected' = [gathered |-> gathered,
                              search |-> IF key = "research_plain" THEN "none" ELSE search,
                              raised |-> search = "failed" /\ SearchCall(key) = "unguarded"]
             /\ IF search = "failed" /\ SearchCall(key) = "unguarded"
                THEN /\ pc' = "raised"
                     /\ hits' = hits
                ELSE /\ pc' = "Curating"
                     /\ hits' = all
    /\ passes' = IF pc' = "Curating" /\ collected'.search = "ok"
                 THEN passes \o search_stream_passes(key) ELSE passes
    /\ UNCHANGED <<caller, key, days, max_per_stream, attempt, run_cfg, verified,
                   items, ret, recorded, attempts>>
    /\ UNCHANGED outsideSection

\* The section-level curation passes, in the order of the code.
curate_priority_last(hs, cfg) ==
    sort_by_source_priority(
      apply_time_decay(
        boost_by_source_quality(
          boost_by_keywords(
            filter_by_keywords(hs, cfg.reject_keywords),
            cfg.boost_keywords)),
        cfg.days[1]))

curate(hs, cfg) ==
    apply_time_decay(
      sort_by_source_priority(
        boost_by_source_quality(
          boost_by_keywords(
            filter_by_keywords(hs, cfg.reject_keywords),
            cfg.boost_keywords))),
      cfg.days[1])

Curate ==
    /\ pc = "Curating"
    /\ hits' = curate(hits, run_cfg)
    /\ pc' = "Verifying"
    /\ passes' = passes \o curation_passes(run_cfg,
                               filter_by_keywords(hits, run_cfg.reject_keywords))
    /\ UNCHANGED <<caller, key, days, max_per_stream, attempt, run_cfg, collected,
                   verified, items, ret, recorded, attempts>>
    /\ UNCHANGED outsideSection

\* process_hits(hits, run_cfg.limit * 2): the first 3 * limit candidates are
\* verified in parallel; the successes are appended as they complete, until
\* there are limit of them.
Verify ==
    /\ pc = "Verifying"
    /\ LET limit == run_cfg.limit * 2
           candidates == SeqSet(Prefix(hits, limit * 3))
       IN \E fetched \in [candidates -> {"fail", "ok", "ok_old"}] :
            LET good == { i \in candidates : fetched[i] # "fail" }
            IN \E order \in Arrangements(good, Min(limit, Cardinality(good))) :
                 verified' = [k \in 1..Len(order) |->
                     VerifiedArticle(order[k],
                         IF fetched[order[k]] = "ok_old" THEN "old" ELSE None)]
    /\ hits' = <<>>
    /\ pc' = "Deduplicating"
    /\ UNCHANGED <<passes, caller, key, days, max_per_stream, attempt, run_cfg, collected,
                   items, ret, recorded, attempts>>
    /\ UNCHANGED outsideSection

DedupStage ==
    /\ pc = "Deduplicating"
    /\ verified' = deduplicate(verified)
    /\ pc' = "TimeRefilter"
    /\ UNCHANGED <<passes, caller, key, days, max_per_stream, attempt, run_cfg, collected,
                   hits, items, ret, recorded, attempts>>
    /\ UNCHANGED outsideSection

TimeRefilter ==
    /\ pc = "TimeRefilter"
    /\ verified' = filter_verified_articles_by_date(verified)
    /\ pc' = "Reranking"
    /\ passes' = Append(passes, "filter_verified_articles_by_date")
    /\ UNCHANGED <<caller, key, days, max_per_stream, attempt, run_cfg, collected,
                   hits, items, ret, recorded, attempts>>
    /\ UNCHANGED outsideSection

\* rerank_articles, then verified[:run_cfg.limit].
Rerank ==
    /\ pc = "Reranking"
    /\ \/ /\ Len(verified) <= run_cfg.limit
          /\ verified' = Prefix(verified, run_cfg.limit)
       \/ /\ Len(verified) > run_cfg.limit
          /\ \E scoring_failed \in BOOLEAN, scores \in [1..Len(verified) -> RerankScores] :
               LET reranked ==
                       IF scoring_failed THEN verified
                       ELSE rerank_by_scores(verified, scores, run_cfg.relevance_threshold)
               IN verified' = Prefix(reranked, run_cfg.limit)
    /\ pc' = "Summarizing"
    /\ UNCHANGED <<passes, caller, key, days, max_per_stream, attempt, run_cfg, collected,
                   hits, items, ret, recorded, attempts>>
    /\ UNCHANGED outsideSection

\* summarize_section: no request without articles; otherwise the items
\* parsed from the LLM's reply, or the exception of a failed request.
Summarize ==
    /\ pc = "Summarizing"
    /\ \/ /\ verified = <<>>
          /\ items' = <<>>
          /\ pc' = "DateFiltering"
       \/ /\ verified # <<>>
          /\ \E reply \in SeqsUpTo(LLMObjects, MaxLLMObjects) :
               items' = parse_json(reply, run_cfg.relevance_threshold)
          /\ pc' = "DateFiltering"
       \/ /\ verified # <<>>
          /\ items' = items
          /\ pc' = "raised"
    /\ verified' = <<>>
    /\ UNCHANGED <<passes, caller, key, days, max_per_stream, attempt, run_cfg, collected,
                   hits, ret, recorded, attempts>>
    /\ UNCHANGED outsideSection

DateFilter ==
    /\ pc = "DateFiltering"
    /\ items' = filter_items_by_date(items)
    /\ pc' = "Done"
    /\ UNCHANGED <<passes, caller, key, days, max_per_stream, attempt, run_cfg, collected,
                   hits, verified, ret, recorded, attempts>>
    /\ UNCHANGED outsideSection

\* The end of an attempt: return the final items when there are any (after
\* recording their scores), else go on with the next attempt.
Finish ==
    /\ pc = "Done"
    /\ LET final_items == FinalItems(items)
       IN /\ attempts' = [attempts EXCEPT ![Len(attempts)].items = items,
                                          ![Len(attempts)].done = TRUE]
          /\ IF final_items # <<>>
             THEN /\ recorded' = Recordings(final_items)
                  /\ ret' = final_items
                  /\ pc' = "returned"
                  /\ attempt' = attempt
             ELSE /\ attempt' = attempt + 1
                  /\ pc' = "loop"
                  /\ UNCHANGED <<ret, recorded>>
    /\ items' = <<>>
    /\ UNCHANGED <<passes, caller, key, days, max_per_stream, run_cfg, collected, hits,
                   verified>>
    /\ UNCHANGED outsideSection

Next ==
    \/ BeginAttempt
    \/ ReturnEmpty
    \/ Collect
    \/ Curate
    \/ Verify
    \/ DedupStage
    \/ TimeRefilter
    \/ Rerank
    \/ Summarize
    \/ DateFilter
    \/ Finish

Init == SectionInit

Spec == Init /\ [][Next]_vars

C6_SearchFailureSwallowed ==
    (collected # Null /\ collected.search = "failed") =>
        /\ ~collected.raised
        /\ pc = "Curating" => hits = collected.gathered

\* C7: the attempts run in order 0, 1, ...; a further attempt starts only
\* after an empty one; there are never more than max_attempts; the returned
\* list is the Live_Link-carrying items of the last attempt run, returned as
\* soon as it is non-empty; the empty list is returned only when all
\* max_attempts attempts were empty; every returned item has a Live_Link.
LinkedItems(its) == SelectSeq(its, LAMBDA it : it.Live_Link # "")

C7_RetryLoop ==
    /\ Len(attempts) <= max_attempts
    /\ \A i \in 1..Len(attempts) : attempts[i].attempt = i - 1
    /\ \A i \in 1..(Len(attempts) - 1) :
         attempts[i].done /\ LinkedItems(attempts[i].items) = <<>>
    /\ pc = "returned" =>
         /\ \A k \in 1..Len(ret) : ret[k].Live_Link # ""
         /\ \A i \in 1..Len(attempts) : attempts[i].done
         /\ ret # <<>> => ret = LinkedItems(attempts[Len(attempts)].items)
         /\ ret = <<>> =>
              /\ Len(attempts) = max_attempts
              /\ \A i \in 1..Len(attempts) : LinkedItems(attempts[i].items) = <<>>

\* An attempt whose items partly lack a Live_Link was returned.
C7_Witness ==
    /\ pc = "returned"
    /\ ret # <<>>
    /\ Len(attempts[Len(attempts)].items) > Len(ret)

\* C8: called from the CLI, a section whose attempts stay empty is attempted
\* three times, with the window doubled and tripled and the third attempt at
\* the relaxed threshold; only the serverless caller stops after one attempt.
C8_BatchRetryLadder ==
    LET cfg == get_streams(max_per_stream)[key]
        base == Or(cfg.days, days)
    IN /\ (caller = "cli" /\ pc = "returned" /\ ret = <<>>) =>
            /\ Len(attempts) = 3
            /\ attempts[1].cfg.days = Some(base)
            /\ attempts[2].cfg.days = Some(2 * base)
            /\ attempts[3].cfg.days = Some(3 * base)
            /\ attempts[3].cfg.relevance_threshold = Max(4, cfg.relevance_threshold - 2)
       /\ (caller = "serverless" /\ pc = "returned") => Len(attempts) = 1

\* C9: every SectionConfig in use, the defaults and every per-attempt copy,
\* has 1 <= relevance_threshold <= 10 and, when days is set, 0 < days <= 30.
ValidConfig(c) ==
    /\ 1 <= c.relevance_threshold
    /\ c.relevance_threshold <= 10
    /\ c.days # Null => (0 < c.days[1] /\ c.days[1] <= 30)

C9_ConfigsValid ==
    /\ \A k \in SectionKeys : ValidConfig(DEFAULT_STREAMS[k])
    /\ run_cfg # Null => ValidConfig(run_cfg)

\* The stages of one attempt of process_section, in the order of the code.
StageOrder ==
    <<"Collecting", "Curating", "Verifying", "Deduplicating", "TimeRefilter",
      "Reranking", "Summarizing", "DateFiltering", "Done">>

StageIndex(p) == CHOOSE i \in 1..Len(StageOrder) : StageOrder[i] = p

InStage == pc \in SeqSet(StageOrder)

\* What the stage being left hands to the next one, from its input alone.
HandsOver ==
    /\ pc = "Deduplicating" => verified' = deduplicate(verified)
    /\ pc = "TimeRefilter" => verified' = filter_verified_articles_by_date(verified)
    /\ pc = "DateFiltering" => items' = filter_items_by_date(items)

\* An attempt starts with nothing left from an earlier one.
StartsClean == pc = "Collecting" => hits = <<>> /\ verified = <<>> /\ items = <<>>

FilterPasses ==
    {"filter_blocked", "filter_by_date", "filter_by_keywords",
     "filter_verified_articles_by_date"}

OrderingPasses ==
    {"boost_by_keywords", "boost_by_source_quality", "sort_by_source_priority",
     "apply_time_decay"}

\* C22: in every attempt each filtering pass over the candidates (blocklist,
\* date window, reject keywords) runs before any boosting or reordering pass
\* (keyword boost, source-quality boost, source priority, time decay): no
\* filtering pass follows a boosting or reordering pass.
C22_FiltersBeforeBoosts ==
    \A i, j \in 1..Len(passes) :
        (i < j /\ passes[i] \in OrderingPasses) => passes[j] \notin FilterPasses

\* C20: within one attempt the stages follow one another in the fixed order
\* Collecting, Curating, Verifying, Deduplicating, time re-filter, Reranking,
\* Summarizing, DateFiltering, Done: every stage that is left is left to the
\* next one of the list, so that each runs exactly once per attempt, on what
\* the stage before it produced in the same attempt.
C20_StagesInOrder ==
    [][ /\ StartsClean
        /\ (InStage /\ pc # "Done" /\ pc' # pc) =>
              /\ pc' = StageOrder[StageIndex(pc) + 1]
              /\ HandsOver
        /\ (~InStage /\ pc' # pc /\ pc' \in SeqSet(StageOrder)) =>
              pc = "loop" /\ pc' = "Collecting" ]_vars

\* The same order when the exception of a stage is allowed to end the call:
\* a stage is left to the next one or to the raised exception, never to
\* another stage, an earlier one or itself.
StagesInOrderUnlessRaised ==
    [][ /\ StartsClean
        /\ (InStage /\ pc # "Done" /\ pc' # pc) =>
              \/ pc' = StageOrder[StageIndex(pc) + 1] /\ HandsOver
              \/ pc' = "raised"
        /\ (~InStage /\ pc' # pc /\ pc' \in SeqSet(StageOrder)) =>
              pc = "loop" /\ pc' = "Collecting" ]_vars

(***************************************************************************)
(* runner.py: main.  Every section is submitted to a pool of workers; the  *)
(* main thread takes each future as it completes and files its result.     *)
(***************************************************************************)

\* --workers, default 4.
workers == 4

\* What a process_section call returns: no items, or some.
ReturnValues ==
    { <<>>, <<[Live_Link |-> "https://example.com/a", Relevance |-> 9, Date |-> None]>> }

Pending == [kind |-> "pending", value |-> <<>>]

\* The body of the as_completed loop for the future of section k:
\* results[key] = data, or results[key] = [] when future.result() raises.
handle_future_keeps_error(res, k, out) ==
    [ x \in DOMAIN res \cup {k} |->
        IF x = k THEN (IF out.kind = "raised" THEN <<"error">> ELSE out.value)
        ELSE res[x] ]

handle_future(res, k, out) ==
    [ x \in DOMAIN res \cup {k} |->
        IF x = k THEN (IF out.kind = "raised" THEN <<>> ELSE out.value)
        ELSE res[x] ]

\* results.get(key, [])
dict_get(res, k, default) == IF k \in DOMAIN res THEN res[k] ELSE default

\* for key in SECTION_ORDER: sections[key] = results.get(key, [])
reassemble(res) ==
    [ i \in 1..Len(SECTION_ORDER) |->
        <<SECTION_ORDER[i], dict_get(res, SECTION_ORDER[i], <<>>)>> ]

MainInit ==
    /\ mpc = "pool"
    /\ started = 0
    /\ running = {}
    /\ outcome = [k \in SectionKeys |-> Pending]
    /\ results = <<>>
    /\ sections = <<>>
    /\ overtaken = FALSE
    /\ DedupIdle
    /\ SectionIdle
    /\ LedgerIdle
    /\ RerankIdle
    /\ SummarizeIdle
    /\ HitsIdle
    /\ CallIdle
    /\ PoolIdle

\* The future of section k completes while one submitted before it runs.
Overtakes(k) ==
    \E j \in running : \E a, b \in 1..Len(SECTION_ORDER) :
        SECTION_ORDER[a] = j /\ SECTION_ORDER[b] = k /\ a < b

\* A free worker takes the next submitted task, in submission order.
StartSection ==
    /\ mpc = "pool"
    /\ started < Len(SECTION_ORDER)
    /\ Cardinality(running) < workers
    /\ started' = started + 1
    /\ running' = running \cup {SECTION_ORDER[started + 1]}
    /\ UNCHANGED <<mpc, outcome, results, sections, overtaken>>
    /\ UNCHANGED outsideMain

\* process_section of section k returns; the main thread files the data.
SectionReturns(k) ==
    /\ mpc = "pool"
    /\ k \in running
    /\ \E data \in ReturnValues :
         LET out == [kind |-> "returned", value |-> data]
         IN /\ outcome' = [outcome EXCEPT ![k] = out]
            /\ results' = handle_future(results, k, out)
    /\ running' = running \ {k}
    /\ overtaken' = (overtaken \/ Overtakes(k))
    /\ UNCHANGED <<mpc, started, sections>>
    /\ UNCHANGED outsideMain

\* process_section of section k raises; the main thread files [].
SectionRaises(k) ==
    /\ mpc = "pool"
    /\ k \in running
    /\ LET out == [kind |-> "raised", value |-> <<>>]
       IN /\ outcome' = [outcome EXCEPT ![k] = out]
          /\ results' = handle_future(results, k, out)
    /\ running' = running \ {k}
    /\ overtaken' = (overtaken \/ Overtakes(k))
    /\ UNCHANGED <<mpc, started, sections>>
    /\ UNCHANGED outsideMain

\* The as_completed loop and the executor block end once every future is done.
all_futures_done_after_first == results # <<>>

all_futures_done == started = Len(SECTION_ORDER) /\ running = {}

LeavePool ==
    /\ mpc = "pool"
    /\ all_futures_done
    /\ mpc' = "reassemble"
    /\ UNCHANGED <<started, running, outcome, results, sections, overtaken>>
    /\ UNCHANGED outsideMain

Reassemble ==
    /\ mpc = "reassemble"
    /\ sections' = reassemble(results)
    /\ mpc' = "done"
    /\ UNCHANGED <<started, running, outcome, results, overtaken>>
    /\ UNCHANGED outsideMain

MainNext ==
    \/ StartSection
    \/ \E k \in SectionKeys : SectionReturns(k)
    \/ \E k \in SectionKeys : SectionRaises(k)
    \/ LeavePool
    \/ Reassemble

SpecMain == MainInit /\ [][MainNext]_vars

\* C5: when some section's pipeline raises, the assembled mapping still has
\* one entry per key of SECTION_ORDER, in that order; a section that raised
\* maps to the empty list, every other one to what its process_section
\* returned.
C5_PartialFailureIsolation ==
    mpc = "done" =>
        /\ Len(sections) = Len(SECTION_ORDER)
        /\ \A i \in 1..Len(SECTION_ORDER) :
             /\ sections[i][1] = SECTION_ORDER[i]
             /\ outcome[SECTION_ORDER[i]].kind = "raised" => sections[i][2] = <<>>
             /\ outcome[SECTION_ORDER[i]].kind = "returned" =>
                    sections[i][2] = outcome[SECTION_ORDER[i]].value

\* One section raised, another returned items, and main has reassembled.
C5_Witness ==
    /\ mpc = "done"
    /\ \E k \in SectionKeys : outcome[k].kind = "raised"
    /\ \E k \in SectionKeys : outcome[k].kind = "returned" /\ outcome[k].value # <<>>

\* C21: whatever order the section workers complete in, the reassembly (and
\* the TL;DR after it) starts only after the future of every section has
\* completed, and the assembled mapping has exactly the keys of
\* SECTION_ORDER, in the order of SECTION_ORDER.
C21_ReassemblyAfterAllWorkers ==
    /\ mpc \in {"reassemble", "done"} =>
         /\ running = {}
         /\ started = Len(SECTION_ORDER)
         /\ \A k \in SectionKeys : outcome[k].kind # "pending"
         /\ DOMAIN results = SectionKeys
    /\ mpc = "done" =>
         [i \in 1..Len(sections) |-> sections[i][1]] = SECTION_ORDER

\* Main has reassembled after a run in which some section completed before
\* one submitted earlier.
C21_Witness ==
    /\ mpc = "done"
    /\ overtaken
    /\ Len(sections) = Len(SECTION_ORDER)

(***************************************************************************)
(* source_quality.py: SourceTracker.  record and record_feedback each load *)
(* a whole file, append one entry and write the whole file back; nothing   *)
(* orders the load and the save of one call against those of another.      *)
(***************************************************************************)

MaxCalls == 2
MaxTicks == 1

\* The threads inside record or record_feedback at one time: two of the
\* section workers of main, or one of them and the feedback endpoint.
Writers == {"worker1", "worker2"}

DAY == 24 * 3600
WINDOW_SECONDS == 90 * DAY
FEEDBACK_PENALTY_SECONDS == 7 * DAY

\* The clock moves past the feedback penalty window or past the whole window.
ClockSteps == {8 * DAY, 90 * DAY}

Urls == {"", "https://www.a.com/1", "https://b.org/3"}

\* urlparse(url).hostname, a list of chunks; None for a URL without a host.
hostname(url) ==
    CASE url = "https://www.a.com/1" -> <<"www.", "a.com">>
      [] url = "https://b.org/3" -> <<"b.org">>
      [] OTHER -> <<>>

extract_domain(url) ==
    LET h == hostname(url)
        stripped == IF h # <<>> /\ Head(h) = "www." THEN Tail(h) ELSE h
    IN lower(stripped)

\* The scores record is called with, and the ratings of record_feedback.
LedgerScores == LLMRelevance
Ratings == {"up", "down"}

prune(data, cutoff) == SelectSeq(data, LAMBDA d : d.timestamp > cutoff)

RECURSIVE sum(_)
sum(xs) == IF xs = <<>> THEN 0 ELSE Head(xs) + sum(Tail(xs))

\* _get_penalty, in fifths: min(1.0, len(recent_flags) * 0.2).
get_penalty(domain) ==
    LET cutoff == now - FEEDBACK_PENALTY_SECONDS
        recent_flags == SelectSeq(feedback_file, LAMBDA d :
                            /\ d.domain = domain
                            /\ d.rating = "down"
                            /\ d.timestamp > cutoff)
    IN Min(5, Len(recent_flags))

\* The scores get_boost averages: the domain's entries inside the window.
window_scores(url) ==
    LET domain == extract_domain(url)
        cutoff == now - WINDOW_SECONDS
        hits_ == SelectSeq(quality_file, LAMBDA d :
                    d.domain = domain /\ d.timestamp > cutoff)
    IN [k \in 1..Len(hits_) |-> hits_[k].score]

\* get_boost as the fraction <<numerator, denominator>>:
\* max(0, max(0, (avg - 5) / 5) - penalty) over the denominator 5 * len(scores).
get_boost(url) ==
    LET domain == extract_domain(url)
        scores == window_scores(url)
        n == Len(scores)
        boost == Max(0, sum(scores) - 5 * n)
    IN IF domain = <<>> THEN <<0, 1>>
       ELSE IF scores = <<>> THEN <<0, 1>>
       ELSE <<Max(0, boost - get_penalty(domain) * n), 5 * n>>

IdleWriter == [pc |-> "idle", path |-> None, data |-> <<>>, entry |-> <<>>, cutoff |-> 0]

LedgerInit ==
    /\ now = 0
    /\ ticks = 0
    /\ calls = 0
    /\ quality_file = <<>>
    /\ feedback_file = <<>>
    /\ writer = [w \in Writers |-> IdleWriter]
    /\ serial_quality = <<>>
    /\ serial_feedback = <<>>
    /\ DedupIdle
    /\ SectionIdle
    /\ MainIdle
    /\ RerankIdle
    /\ SummarizeIdle
    /\ HitsIdle
    /\ CallIdle
    /\ PoolIdle

\* record up to its _save_json: the early return for a URL without a domain,
\* else load, append, prune.
RecordLoad(w) ==
    /\ writer[w].pc = "idle"
    /\ calls < MaxCalls
    /\ calls' = calls + 1
    /\ \E url \in Urls, relevance_score \in LedgerScores :
         LET domain == extract_domain(url)
             entry == [domain |-> domain, score |-> relevance_score, timestamp |-> now]
             cutoff == now - WINDOW_SECONDS
         IN writer' = IF domain = <<>> THEN writer
                      ELSE [writer EXCEPT ![w] =
                               [pc |-> "saving", path |-> "quality",
                                data |-> prune(Append(quality_file, entry), cutoff),
                                entry |-> entry, cutoff |-> cutoff]]
    /\ UNCHANGED <<now, ticks, quality_file, feedback_file, serial_quality, serial_feedback>>
    /\ UNCHANGED outsideLedger

\* record_feedback up to its _save_json.
FeedbackLoad(w) ==
    /\ writer[w].pc = "idle"
    /\ calls < MaxCalls
    /\ calls' = calls + 1
    /\ \E url \in Urls, rating \in Ratings :
         LET domain == extract_domain(url)
             entry == [domain |-> domain, url |-> url, rating |-> rating, timestamp |-> now]
         IN writer' = IF domain = <<>> THEN writer
                      ELSE [writer EXCEPT ![w] =
                               [pc |-> "saving", path |-> "feedback",
                                data |-> Append(feedback_file, entry),
                                entry |-> entry, cutoff |-> 0]]
    /\ UNCHANGED <<now, ticks, quality_file, feedback_file, serial_quality, serial_feedback>>
    /\ UNCHANGED outsideLedger

\* _save_json: the whole list replaces the file, or the write fails and is
\* only logged.
Save(w) ==
    /\ writer[w].pc = "saving"
    /\ \E written \in BOOLEAN :
         IF writer[w].path = "quality"
         THEN /\ quality_file' = IF written THEN writer[w].data ELSE quality_file
              /\ serial_quality' =
                    IF written
                    THEN prune(Append(serial_quality, writer[w].entry), writer[w].cutoff)
                    ELSE serial_quality
              /\ UNCHANGED <<feedback_file, serial_feedback>>
         ELSE /\ feedback_file' = IF written THEN writer[w].data ELSE feedback_file
              /\ serial_feedback' =
                    IF written THEN Append(serial_feedback, writer[w].entry)
                    ELSE serial_feedback
              /\ UNCHANGED <<quality_file, serial_quality>>
    /\ writer' = [writer EXCEPT ![w] = IdleWriter]
    /\ UNCHANGED <<now, ticks, calls>>
    /\ UNCHANGED outsideLedger

Tick ==
    /\ ticks < MaxTicks
    /\ ticks' = ticks + 1
    /\ \E d \in ClockSteps : now' = now + d
    /\ UNCHANGED <<calls, quality_file, feedback_file, writer, serial_quality, serial_feedback>>
    /\ UNCHANGED outsideLedger

LedgerNext ==
    \/ \E w \in Writers : RecordLoad(w)
    \/ \E w \in Writers : FeedbackLoad(w)
    \/ \E w \in Writers : Save(w)
    \/ Tick

SpecLedger == LedgerInit /\ [][LedgerNext]_vars

\* C4: ledger writes are serialized: once the concurrent record and
\* record_feedback calls have finished, each file holds what it would hold
\* had every call's load-append-save been one transaction, so no entry that
\* was written is lost.
C4_LedgerWritesSerialized ==
    (\A w \in Writers : writer[w].pc = "idle") =>
        /\ quality_file = serial_quality
        /\ feedback_file = serial_feedback

\* C10: whatever record and record_feedback calls came before, get_boost of
\* every URL lies in [0,1], and it is 0 for a domain without a recorded score
\* inside the 90-day window.
C10_BoostInUnitInterval ==
    \A url \in Urls :
        LET b == get_boost(url)
        IN /\ 0 <= b[1]
           /\ b[1] <= b[2]
           /\ window_scores(url) = <<>> => b[1] = 0

(***************************************************************************)
(* rerank.py: rerank_articles on its own.  An article is named by its      *)
(* position in the input list.                                             *)
(***************************************************************************)

MaxRerankArticles == 3
MaxReplyObjects == 2

\* for attempt in range(5)
RERANK_TRIES == 5

\* scores = [5] * count
DEFAULT_SCORE == 5

RerankLimits == {1, 3}
RerankThresholds == {5, 7}

\* The objects of the scoring reply: an index (0 when the key is missing,
\* one past the list for a stray one) and a score.
ScoreObjects == [index : 0..(MaxRerankArticles + 1), score : RerankScores]

\* An answer of generate_content: parseable JSON with its objects, or not.
ScoringReplies ==
    { [ok |-> TRUE, data |-> d] : d \in SeqsUpTo(ScoreObjects, MaxReplyObjects) }
        \cup { [ok |-> FALSE, data |-> <<>>] }

\* _parse_scores: the objects applied in order to a list of default scores.
RECURSIVE parse_scores_zero_based(_, _)
parse_scores_zero_based(data, count) ==
    IF data = <<>> THEN [i \in 1..count |-> DEFAULT_SCORE]
    ELSE LET before == parse_scores_zero_based(SubSeq(data, 1, Len(data) - 1), count)
             obj == data[Len(data)]
             idx == obj.index
         IN IF 0 <= idx /\ idx < count
            THEN [before EXCEPT ![idx + 1] = obj.score]
            ELSE before

RECURSIVE parse_scores(_, _)
parse_scores(data, count) ==
    IF data = <<>> THEN [i \in 1..count |-> DEFAULT_SCORE]
    ELSE LET before == parse_scores(SubSeq(data, 1, Len(data) - 1), count)
             obj == data[Len(data)]
             idx == obj.index - 1
         IN IF 0 <= idx /\ idx < count
            THEN [before EXCEPT ![idx + 1] = obj.score]
            ELSE before

\* if len(articles) <= section.limit: return articles
skips_scoring_below(n, limit) == n < limit

skips_scoring(n, limit) == n <= limit

\* except Exception: return articles
on_scoring_error_empty(arts) == <<>>

on_scoring_error(arts) == arts

RerankInit ==
    /\ rr_pc = "start"
    /\ \E n \in 0..MaxRerankArticles : rr_articles = [k \in 1..n |-> k]
    /\ rr_section \in [limit : RerankLimits, relevance_threshold : RerankThresholds]
    /\ rr_attempt = 0
    /\ rr_calls = 0
    /\ rr_raw = Null
    /\ rr_scores = <<>>
    /\ rr_failed = FALSE
    /\ rr_result = <<>>
    /\ DedupIdle
    /\ SectionIdle
    /\ MainIdle
    /\ LedgerIdle
    /\ SummarizeIdle
    /\ HitsIdle
    /\ CallIdle
    /\ PoolIdle

\* The early return: no scoring for a list within the limit.
RerankSkip ==
    /\ rr_pc = "start"
    /\ skips_scoring(Len(rr_articles), rr_section.limit)
    /\ rr_result' = rr_articles
    /\ rr_pc' = "done"
    /\ UNCHANGED <<rr_articles, rr_section, rr_attempt, rr_calls, rr_raw, rr_scores,
                   rr_failed>>
    /\ UNCHANGED outsideRerank

\* Entering the try block: the model object is built and the loop begins.
RerankBegin ==
    /\ rr_pc = "start"
    /\ ~skips_scoring(Len(rr_articles), rr_section.limit)
    /\ rr_pc' = "calling"
    /\ UNCHANGED <<rr_articles, rr_section, rr_attempt, rr_calls, rr_raw, rr_scores,
                   rr_failed, rr_result>>
    /\ UNCHANGED outsideRerank

\* generate_content answers; _parse_scores raises on a reply that is not
\* JSON, else the articles are filtered and sorted by their scores.
ScoringAnswers ==
    /\ rr_pc = "calling"
    /\ rr_calls' = rr_calls + 1
    /\ \E reply \in ScoringReplies :
         /\ rr_raw' = reply
         /\ IF reply.ok
            THEN LET scores == parse_scores(reply.data, Len(rr_articles))
                 IN /\ rr_scores' = scores
                    /\ rr_failed' = FALSE
                    /\ rr_result' = rerank_by_scores(rr_articles, scores,
                                                     rr_section.relevance_threshold)
            ELSE /\ rr_scores' = <<>>
                 /\ rr_failed' = TRUE
                 /\ rr_result' = on_scoring_error(rr_articles)
    /\ rr_pc' = "done"
    /\ UNCHANGED <<rr_articles, rr_section, rr_attempt>>
    /\ UNCHANGED outsideRerank

\* generate_content raises ResourceExhausted or ServiceUnavailable: sleep and
\* try again, or re-raise into the outer handler on the last try.
ScoringRateLimited ==
    /\ rr_pc = "calling"
    /\ rr_calls' = rr_calls + 1
    /\ IF rr_attempt = RERANK_TRIES - 1
       THEN /\ rr_failed' = TRUE
            /\ rr_result' = on_scoring_error(rr_articles)
            /\ rr_pc' = "done"
            /\ UNCHANGED rr_attempt
       ELSE /\ rr_attempt' = rr_attempt + 1
            /\ UNCHANGED <<rr_pc, rr_failed, rr_result>>
    /\ UNCHANGED <<rr_articles, rr_section, rr_raw, rr_scores>>
    /\ UNCHANGED outsideRerank

\* generate_content raises anything else (a network error): straight into
\* the outer handler.
ScoringRaises ==
    /\ rr_pc = "calling"
    /\ rr_calls' = rr_calls + 1
    /\ rr_failed' = TRUE
    /\ rr_result' = on_scoring_error(rr_articles)
    /\ rr_pc' = "done"
    /\ UNCHANGED <<rr_articles, rr_section, rr_attempt, rr_raw, rr_scores>>
    /\ UNCHANGED outsideRerank

RerankNext ==
    \/ RerankSkip
    \/ RerankBegin
    \/ ScoringAnswers
    \/ ScoringRateLimited
    \/ ScoringRaises

SpecRerank == RerankInit /\ [][RerankNext]_vars

C12_RerankSkipsWithinLimit ==
    (rr_pc = "done" /\ Len(rr_articles) <= rr_section.limit) =>
        /\ rr_calls = 0
        /\ rr_raw = Null
        /\ rr_result = rr_articles

\* A list of exactly limit articles was returned.
C12_Witness ==
    /\ rr_pc = "done"
    /\ rr_articles # <<>>
    /\ Len(rr_articles) = rr_section.limit

\* The score the reply reports for index i: that of the last object naming
\* i, the default when no object names it.
ReportedScore(i) ==
    LET named == { k \in 1..Len(rr_raw.data) : rr_raw.data[k].index = i }
    IN IF named = {} THEN DEFAULT_SCORE
       ELSE rr_raw.data[CHOOSE k \in named : \A l \in named : l <= k].score

MAX_RETRIES == 3
RETRY_BASE_WAIT == 3
MAX_WAIT == 15

\* for attempt in range(2)
JSON_ATTEMPTS == 2

FALLBACK_MODELS == << "llama-3.3-70b-versatile", "llama-3.1-8b-instant" >>

\* The model argument: the default, the other fallback, one outside the list.
ModelArguments == { "llama-3.3-70b-versatile", "llama-3.1-8b-instant", "custom-model" }

\* relevance_threshold of the call.
SummarizeThresholds == {6}

\* models_to_try = [model] + [m for m in _FALLBACK_MODELS if m != model]
models_to_try_repeating(model) == <<model>> \o FALLBACK_MODELS

models_to_try(model) ==
    <<model>> \o SelectSeq(FALLBACK_MODELS, LAMBDA m : m # model)

\* The messages a model's first request carries.
FirstMessages == << "system", "user" >>

\* messages.append(corrective system message)
with_corrective_dropped(messages) == messages

with_corrective(messages) == Append(messages, "corrective")

\* A Retry-After header: absent, empty, a number of seconds, or other text.
RetryAfterHeaders ==
    { [kind |-> "absent", seconds |-> 0], [kind |-> "empty", seconds |-> 0],
      [kind |-> "text", seconds |-> 0] }
        \cup { [kind |-> "number", seconds |-> n] : n \in {0, 2, 20} }

RetryableStatuses == {429, 503}
ClientErrorStatuses == {401}

Pow2(n) == IF n = 0 THEN 1 ELSE IF n = 1 THEN 2 ELSE IF n = 2 THEN 4 ELSE 8

\* The sleep after an error response of the retry loop.
retry_wait_uncapped(retry_after, attempt_) ==
    IF retry_after.kind = "number"
    THEN Max(retry_after.seconds, 1)
    ELSE RETRY_BASE_WAIT * Pow2(attempt_)

retry_wait(retry_after, attempt_) ==
    IF retry_after.kind = "number"
    THEN Min(Max(retry_after.seconds, 1), MAX_WAIT)
    ELSE Min(RETRY_BASE_WAIT * Pow2(attempt_), MAX_WAIT)

\* The content of a 200 reply: a JSON array of objects, or no JSON at all.
LLMReplies ==
    { [json |-> TRUE, data |-> d] : d \in SeqsUpTo(LLMObjects, 1) }
        \cup { [json |-> FALSE, data |-> <<>>] }

SummarizeInit ==
    /\ sm_pc = "start"
    /\ sm_model \in ModelArguments
    /\ sm_has_articles \in BOOLEAN
    /\ sm_idx = 0
    /\ sm_attempt = 0
    /\ sm_messages = <<>>
    /\ sm_raw = Null
    /\ sm_log = <<>>
    /\ sm_seen = {}
    /\ sm_result = <<>>
    /\ gq_posts = 0
    /\ gq_last = Null
    /\ gq_wait = 0
    /\ DedupIdle
    /\ SectionIdle
    /\ MainIdle
    /\ LedgerIdle
    /\ RerankIdle
    /\ HitsIdle
    /\ CallIdle
    /\ PoolIdle

current_model == models_to_try(sm_model)[sm_idx]

LogEntry(outcome_) ==
    [model |-> current_model, messages |-> sm_messages, outcome |-> outcome_]

\* if not articles: return []
SummarizeNothing ==
    /\ sm_pc = "start"
    /\ ~sm_has_articles
    /\ sm_result' = <<>>
    /\ sm_pc' = "done"
    /\ UNCHANGED <<sm_model, sm_has_articles, sm_idx, sm_attempt, sm_messages, sm_raw,
                   sm_log, sm_seen, gq_posts, gq_last, gq_wait>>
    /\ UNCHANGED outsideSummarize

\* The first model's first _groq_request call begins.
SummarizeBegin ==
    /\ sm_pc = "start"
    /\ sm_has_articles
    /\ sm_idx' = 1
    /\ sm_attempt' = 0
    /\ sm_messages' = FirstMessages
    /\ sm_pc' = "posting"
    /\ UNCHANGED <<sm_model, sm_has_articles, sm_raw, sm_log, sm_seen, sm_result,
                   gq_posts, gq_last, gq_wait>>
    /\ UNCHANGED outsideSummarize

\* A request answered 429 or 5xx: inside the retry loop sleep and go on,
\* on the final request raise_for_status raises.
PostRetryable ==
    /\ sm_pc = "posting"
    /\ \E status \in RetryableStatuses, retry_after \in RetryAfterHeaders :
         /\ gq_last' = [status |-> status, retry_after |-> retry_after]
         /\ sm_seen' = sm_seen \cup {status}
         /\ IF gq_posts < MAX_RETRIES
            THEN /\ gq_wait' = retry_wait(retry_after, gq_posts)
                 /\ UNCHANGED <<sm_pc, sm_log>>
            ELSE /\ sm_pc' = "http_error"
                 /\ sm_log' = Append(sm_log, LogEntry("http_error"))
                 /\ UNCHANGED gq_wait
    /\ gq_posts' = gq_posts + 1
    /\ UNCHANGED <<sm_model, sm_has_articles, sm_idx, sm_attempt, sm_messages, sm_raw,
                   sm_result>>
    /\ UNCHANGED outsideSummarize

\* A request answered with another error status: raise_for_status raises.
PostClientError ==
    /\ sm_pc = "posting"
    /\ \E status \in ClientErrorStatuses :
         /\ gq_last' = [status |-> status,
                        retry_after |-> [kind |-> "absent", seconds |-> 0]]
         /\ sm_seen' = sm_seen \cup {status}
    /\ gq_posts' = gq_posts + 1
    /\ sm_pc' = "http_error"
    /\ sm_log' = Append(sm_log, LogEntry("http_error"))
    /\ UNCHANGED <<sm_model, sm_has_articles, sm_idx, sm_attempt, sm_messages, sm_raw,
                   sm_result, gq_wait>>
    /\ UNCHANGED outsideSummarize

\* A request answered 200 with a chat completion.
PostOk ==
    /\ sm_pc = "posting"
    /\ \E reply \in LLMReplies :
         /\ sm_raw' = reply
         /\ sm_log' = Append(sm_log, LogEntry(IF reply.json THEN "json" ELSE "not_json"))
    /\ gq_last' = [status |-> 200, retry_after |-> [kind |-> "absent", seconds |-> 0]]
    /\ sm_seen' = sm_seen \cup {200}
    /\ gq_posts' = gq_posts + 1
    /\ sm_pc' = "returned"
    /\ UNCHANGED <<sm_model, sm_has_articles, sm_idx, sm_attempt, sm_messages, sm_result,
                   gq_wait>>
    /\ UNCHANGED outsideSummarize

\* requests.post raises (connection error, timeout), or the body is not a
\* chat completion: neither is an HTTPError, so it leaves summarize_section.
PostFails ==
    /\ sm_pc = "posting"
    /\ gq_posts' = gq_posts + 1
    /\ sm_seen' = sm_seen \cup {0}
    /\ sm_log' = Append(sm_log, LogEntry("escaped"))
    /\ sm_pc' = "escaped"
    /\ UNCHANGED <<sm_model, sm_has_articles, sm_idx, sm_attempt, sm_messages, sm_raw,
                   sm_result, gq_last, gq_wait>>
    /\ UNCHANGED outsideSummarize

\* The next model's first call, or return [] after the last model.
NextModel ==
    IF sm_idx < Len(models_to_try(sm_model))
    THEN /\ sm_idx' = sm_idx + 1
         /\ sm_attempt' = 0
         /\ sm_messages' = FirstMessages
         /\ sm_pc' = "posting"
         /\ UNCHANGED sm_result
    ELSE /\ sm_result' = <<>>
         /\ sm_pc' = "done"
         /\ UNCHANGED <<sm_idx, sm_attempt, sm_messages>>

\* _groq_request returned: the parsed items are returned, or the repair
\* message is appended and the same model asked again, once.
HandleReply ==
    /\ sm_pc = "returned"
    /\ \E relevance_threshold \in SummarizeThresholds :
         IF sm_raw.json
         THEN /\ sm_result' = parse_json(sm_raw.data, relevance_threshold)
              /\ sm_pc' = "done"
              /\ UNCHANGED <<sm_idx, sm_attempt, sm_messages>>
         ELSE IF sm_attempt + 1 < JSON_ATTEMPTS
         THEN /\ sm_messages' = with_corrective(sm_messages)
              /\ sm_attempt' = sm_attempt + 1
              /\ sm_pc' = "posting"
              /\ UNCHANGED <<sm_idx, sm_result>>
         ELSE LET appended == with_corrective(sm_messages)
              IN IF sm_idx < Len(models_to_try(sm_model))
                 THEN NextModel
                 ELSE /\ sm_messages' = appended
                      /\ sm_attempt' = sm_attempt + 1
                      /\ sm_result' = <<>>
                      /\ sm_pc' = "done"
                      /\ UNCHANGED sm_idx
    /\ sm_raw' = Null
    /\ gq_posts' = 0
    /\ gq_last' = Null
    /\ gq_wait' = 0
    /\ UNCHANGED <<sm_model, sm_has_articles, sm_log, sm_seen>>
    /\ UNCHANGED outsideSummarize

\* except requests.exceptions.HTTPError: continue
HandleHTTPError ==
    /\ sm_pc = "http_error"
    /\ NextModel
    /\ gq_posts' = 0
    /\ gq_last' = Null
    /\ gq_wait' = 0
    /\ UNCHANGED <<sm_model, sm_has_articles, sm_raw, sm_log, sm_seen>>
    /\ UNCHANGED outsideSummarize

SummarizeNext ==
    \/ SummarizeNothing
    \/ SummarizeBegin
    \/ PostRetryable
    \/ PostClientError
    \/ PostOk
    \/ PostFails
    \/ HandleReply
    \/ HandleHTTPError

SpecSummarize == SummarizeInit /\ [][SummarizeNext]_vars

\* Every request so far was answered 200 with a reply that is not JSON.
EveryReplyUnparseable ==
    /\ sm_seen = {200}
    /\ \A k \in 1..Len(sm_log) : sm_log[k].outcome = "not_json"

\* The models in the order the claims give: the requested one, then the
\* fallback list without it.
ExpectedModels ==
    IF sm_model = FALLBACK_MODELS[1] THEN <<FALLBACK_MODELS[1], FALLBACK_MODELS[2]>>
    ELSE IF sm_model = FALLBACK_MODELS[2] THEN <<FALLBACK_MODELS[2], FALLBACK_MODELS[1]>>
    ELSE <<sm_model, FALLBACK_MODELS[1], FALLBACK_MODELS[2]>>

Only429 == sm_seen = {429}

GroqRequestsAndWaits ==
    /\ gq_posts <= 4
    /\ gq_wait <= 15
    /\ (sm_pc = "posting" /\ gq_posts >= 1) =>
         LET h == gq_last.retry_after
         IN IF h.kind = "number"
            THEN gq_wait = (IF h.seconds < 1 THEN 1
                            ELSE IF h.seconds > 15 THEN 15 ELSE h.seconds)
            ELSE gq_wait = <<3, 6, 12>>[gq_posts]

\* C17 as stated: at most 4 requests, the waits as above, and
\* _groq_request raises only when the 4th response is still an error.
C17_GroqRequestBackoff ==
    /\ GroqRequestsAndWaits
    /\ sm_pc = "http_error" => gq_posts = 4

\* C17 amended: at most 4 requests, the waits as above; a response with
\* status 429 or >= 500 makes _groq_request raise only when it is the 4th,
\* and a response with any other error status makes it raise at once.
C17_GroqRequestBackoffAmended ==
    /\ GroqRequestsAndWaits
    /\ sm_pc = "http_error" =>
         \/ gq_posts = 4 /\ gq_last.status >= 400
         \/ gq_last.status >= 400 /\ gq_last.status < 500 /\ gq_last.status # 429

\* Three waits, the last one 12 seconds, and the 4th response still 503.
C17_Witness ==
    /\ sm_pc = "http_error"
    /\ gq_posts = 4
    /\ gq_wait = 12
    /\ gq_last.status = 503

\* C30: summarize_section never raises, whatever the LLM backend does: a
\* request that fails to connect or times out, or a 200 reply without the
\* choices/message fields, ends in [] or in a fallback model, never in an
\* exception that leaves the call.
C30_SummarizeNeverRaises == sm_pc # "escaped"

\* While every request is answered with an HTTP status and a 200 reply is
\* a chat completion, the call ends by returning.
SummarizeReturnsOnHttpReplies == 0 \notin sm_seen => sm_pc # "escaped"

(***************************************************************************)
(* runner.py: _process_single_hit and _log_skipped, run by the worker      *)
(* threads of process_hits, one task per candidate.                        *)
(***************************************************************************)

MaxTasks == 2

Tasks == 1..MaxTasks

\* The lengths len(hit.snippet) tried for the candidate of task t: the two
\* sides of the 80-character limit by turns, and 0 for None or "".
SnippetLens(t) == {0, IF t % 2 = 1 THEN 81 ELSE 80}

\* The candidates: the URL is empty (<<>>) or names the task, the snippet
\* is known by the task and its length.
HitsOf(t) ==
    { [url |-> u, snippet |-> [of |-> t, len |-> n]] :
        u \in {<<>>, <<t>>}, n \in SnippetLens(t) }

\* if hit.snippet and len(hit.snippet) > 80
uses_snippet_from_80(h) == h.snippet.len >= 80

uses_snippet(h) == h.snippet.len > 80

\* if hit.snippet and len(hit.snippet) > 40
scrape_uses_snippet(h) == h.snippet.len > 40

\* The VerifiedArticle built from the snippet alone.
degraded_article(h) ==
    [url |-> h.url, snippet |-> h.snippet, content |-> h.snippet,
     scraped_published_date |-> None]

\* The VerifiedArticle of a verified candidate.
verified_article(h, content, scraped_date) ==
    [url |-> h.url, snippet |-> h.snippet, content |-> content,
     scraped_published_date |-> scraped_date]

PageContent == [of |-> 0, len |-> 500]

\* with _LOG_LOCK: around the write to either file.
takes_lock_primary_only(path) == path = "primary"

takes_lock(path) == TRUE

HitsInit ==
    /\ hit \in [Tasks -> UNION { HitsOf(t) : t \in Tasks }]
    /\ \A t \in Tasks : hit[t] \in HitsOf(t)
    /\ tpc = [t \in Tasks |-> "start"]
    /\ tverify = [t \in Tasks |-> "pending"]
    /\ treason = [t \in Tasks |-> <<>>]
    /\ tresult = [t \in Tasks |-> Null]
    /\ log_lock = 0
    /\ skip_log = <<>>
    /\ tmp_log = <<>>
    /\ DedupIdle
    /\ SectionIdle
    /\ MainIdle
    /\ LedgerIdle
    /\ RerankIdle
    /\ SummarizeIdle
    /\ CallIdle
    /\ PoolIdle

\* The task calls _log_skipped(reason, url) and will return res after it.
CallLogSkipped(t, reason, res) ==
    /\ treason' = [treason EXCEPT ![t] = Append(@, reason)]
    /\ tresult' = [tresult EXCEPT ![t] = res]
    /\ tpc' = [tpc EXCEPT ![t] = "log"]

\* if not hit.url: log missing_url, return None
MissingUrl(t) ==
    /\ tpc[t] = "start"
    /\ hit[t].url = <<>>
    /\ CallLogSkipped(t, "missing_url", Null)
    /\ UNCHANGED <<hit, tverify, log_lock, skip_log, tmp_log>>
    /\ UNCHANGED outsideHits

\* verify_link returns the page, returns None or raises; without a page the
\* candidate is kept on a snippet of more than 80 characters, else dropped.
VerifyLink(t) ==
    /\ tpc[t] = "start"
    /\ hit[t].url # <<>>
    /\ \E v \in {"html", "none", "raised"} :
         /\ tverify' = [tverify EXCEPT ![t] = v]
         /\ IF v = "html"
            THEN /\ tpc' = [tpc EXCEPT ![t] = "scraping"]
                 /\ UNCHANGED <<treason, tresult>>
            ELSE IF uses_snippet(hit[t])
            THEN CallLogSkipped(t, "verify_failed_using_snippet", degraded_article(hit[t]))
            ELSE CallLogSkipped(t, "verify_failed", Null)
    /\ UNCHANGED <<hit, log_lock, skip_log, tmp_log>>
    /\ UNCHANGED outsideHits

\* scrape gives the content, or nothing (empty, or it raised); then the
\* metadata date is read and the article returned.
Scrape(t) ==
    /\ tpc[t] = "scraping"
    /\ \E scraped \in BOOLEAN, scraped_date \in {None, "old"} :
         IF scraped
         THEN /\ tresult' = [tresult EXCEPT ![t] =
                                verified_article(hit[t], PageContent, scraped_date)]
              /\ tpc' = [tpc EXCEPT ![t] = "done"]
              /\ UNCHANGED treason
         ELSE IF scrape_uses_snippet(hit[t])
         THEN CallLogSkipped(t, "scrape_failed_using_snippet",
                             verified_article(hit[t], hit[t].snippet, scraped_date))
         ELSE CallLogSkipped(t, "scrape_failed", Null)
    /\ UNCHANGED <<hit, tverify, log_lock, skip_log, tmp_log>>
    /\ UNCHANGED outsideHits

\* The lock as the with statement of the given path takes it.
LockFreeFor(path) == takes_lock(path) => log_lock = 0

LockTakenBy(t, path) == IF takes_lock(path) THEN t ELSE log_lock

LockLeftBy(t) == IF log_lock = t THEN 0 ELSE log_lock

\* The reason of the call of _log_skipped the task is in.
LastReason(t) == treason[t][Len(treason[t])]
\* The record _log_skipped writes: the reason and the url it was given.
LogRecord(t) == [reason |-> LastReason(t), url |-> hit[t].url]

\* _log_skipped, first try: mkdir of the log's directory raises OSError, or
\* the thread enters the with block once the lock is free.
EnterPrimary(t) ==
    /\ tpc[t] = "log"
    /\ \/ /\ tpc' = [tpc EXCEPT ![t] = "fallback"]
          /\ UNCHANGED log_lock
       \/ /\ LockFreeFor("primary")
          /\ log_lock' = LockTakenBy(t, "primary")
          /\ tpc' = [tpc EXCEPT ![t] = "writing_primary"]
    /\ UNCHANGED <<hit, tverify, treason, tresult, skip_log, tmp_log>>
    /\ UNCHANGED outsideHits

\* The append to the primary log succeeds, or open/write raises OSError;
\* leaving the with block releases the lock either way.
WritePrimary(t) ==
    /\ tpc[t] = "writing_primary"
    /\ \/ /\ skip_log' = Append(skip_log, LogRecord(t))
          /\ tpc' = [tpc EXCEPT ![t] = "done"]
       \/ /\ UNCHANGED skip_log
          /\ tpc' = [tpc EXCEPT ![t] = "fallback"]
    /\ log_lock' = LockLeftBy(t)
    /\ UNCHANGED <<hit, tverify, treason, tresult, tmp_log>>
    /\ UNCHANGED outsideHits

\* The except branch: mkdir under /tmp raises OSError and the call gives
\* up, or the thread enters the second with block once the lock is free.
EnterFallback(t) ==
    /\ tpc[t] = "fallback"
    /\ \/ /\ tpc' = [tpc EXCEPT ![t] = "done"]
          /\ UNCHANGED log_lock
       \/ /\ LockFreeFor("fallback")
          /\ log_lock' = LockTakenBy(t, "fallback")
          /\ tpc' = [tpc EXCEPT ![t] = "writing_fallback"]
    /\ UNCHANGED <<hit, tverify, treason, tresult, skip_log, tmp_log>>
    /\ UNCHANGED outsideHits

\* The append to the /tmp log succeeds or raises OSError; the lock is
\* released and _log_skipped returns either way.
WriteFallback(t) ==
    /\ tpc[t] = "writing_fallback"
    /\ \/ tmp_log' = Append(tmp_log, LogRecord(t))
       \/ UNCHANGED tmp_log
    /\ tpc' = [tpc EXCEPT ![t] = "done"]
    /\ log_lock' = LockLeftBy(t)
    /\ UNCHANGED <<hit, tverify, treason, tresult, skip_log>>
    /\ UNCHANGED outsideHits

HitsNext ==
    \E t \in Tasks :
        \/ MissingUrl(t)
        \/ VerifyLink(t)
        \/ Scrape(t)
        \/ EnterPrimary(t)
        \/ WritePrimary(t)
        \/ EnterFallback(t)
        \/ WriteFallback(t)

SpecHits == HitsInit /\ [][HitsNext]_vars

\* The records some log holds for the candidate of task t.
RecordsOf(t) ==
    LET own(log) == { i \in 1..Len(log) : log[i].url = <<t>> }
    IN  Cardinality(own(skip_log)) + Cardinality(own(tmp_log))

LoggedRecords == { skip_log[i] : i \in 1..Len(skip_log) } \cup { tmp_log[i] : i \in 1..Len(tmp_log) }

VerifyFailed(t) == hit[t].url # <<>> /\ tverify[t] \in {"none", "raised"}

\* C18: a candidate with a non-empty URL whose verify_link returned None or
\* raised is returned as a VerifiedArticle whose snippet and content are both
\* the candidate's snippet when that snippet is longer than 80 characters,
\* and as None otherwise; in both cases _log_skipped is called exactly once,
\* with the reason of that case, and the logs never hold more than one
\* record for the candidate, none with another reason.
C18_VerifyFailureUsesSnippet ==
    \A t \in Tasks :
        VerifyFailed(t) =>
            /\ hit[t].snippet.len > 80 =>
                 /\ tresult[t] # Null
                 /\ tresult[t].url = hit[t].url
                 /\ tresult[t].snippet = hit[t].snippet
                 /\ tresult[t].content = hit[t].snippet
                 /\ treason[t] = <<"verify_failed_using_snippet">>
            /\ hit[t].snippet.len <= 80 =>
                 /\ tresult[t] = Null
                 /\ treason[t] = <<"verify_failed">>
            /\ RecordsOf(t) <= 1
            /\ \A r \in LoggedRecords : r.url = <<t>> => r.reason = treason[t][1]

\* Both cases have returned: task 1 kept on its 81-character snippet after
\* verify_link raised, task 2 dropped with its 80-character snippet after
\* verify_link returned None, one record each, one in either log.
C18_Witness ==
    /\ tpc[1] = "done" /\ tpc[2] = "done"
    /\ VerifyFailed(1) /\ tverify[1] = "raised" /\ hit[1].snippet.len = 81
    /\ tresult[1] # Null /\ tresult[1].content = hit[1].snippet
    /\ VerifyFailed(2) /\ tverify[2] = "none" /\ hit[2].snippet.len = 80
    /\ tresult[2] = Null
    /\ skip_log = <<[reason |-> "verify_failed_using_snippet", url |-> <<1>>]>>
    /\ tmp_log = <<[reason |-> "verify_failed", url |-> <<2>>]>>

\* The threads inside an append to the skip log, primary or /tmp.
Writing == { t \in Tasks : tpc[t] \in {"writing_primary", "writing_fallback"} }

\* C19: two threads are never inside the append to the skip log at once:
\* a thread writing to the primary log or to the /tmp fallback holds
\* _LOG_LOCK, and the lock is held by nobody who is not writing, so it has
\* been released after every write, the failed ones included.
C19_SkipLogWritesUnderLock ==
    /\ Cardinality(Writing) <= 1
    /\ \A t \in Writing : log_lock = t
    /\ log_lock # 0 => log_lock \in Writing

\* Task 1 is inside the append to the /tmp log, holding the lock, while
\* task 2 has a record to log and waits before the primary log.
C19_Witness ==
    /\ tpc[1] = "writing_fallback"
    /\ log_lock = 1
    /\ tpc[2] = "log"
    /\ Len(treason[2]) = 1

(***************************************************************************)
(* summarize.py: _parse_json on its own, on lists of parsed objects some   *)
(* of which carry no Relevance.                                            *)
(***************************************************************************)

MaxParsedObjects == 2

\* The objects of a parsed reply: a Headline, and a Relevance or none.
ParsedObjects ==
    [Headline : {"a", "b"}] \cup [Headline : {"a", "b"}, Relevance : {2, 5, 7, 9}]

ParseThresholds == {5, 6, 7}

\* The reply of the spec's example: relevance scores 9, 5, 7, 2.
ExampleReply ==
    << [Headline |-> "a", Relevance |-> 9], [Headline |-> "b", Relevance |-> 5],
       [Headline |-> "a", Relevance |-> 7], [Headline |-> "b", Relevance |-> 2] >>

ParseInit ==
    /\ fn_pc = "ready"
    /\ \E data \in SeqsUpTo(ParsedObjects, MaxParsedObjects) \cup {ExampleReply},
          threshold \in ParseThresholds :
         fn_args = [data |-> data, relevance_threshold |-> threshold]
    /\ fn_ret = <<>>
    /\ fn_ret2 = <<>>
    /\ DedupIdle
    /\ SectionIdle
    /\ MainIdle
    /\ LedgerIdle
    /\ RerankIdle
    /\ SummarizeIdle
    /\ HitsIdle
    /\ PoolIdle

ParseJson ==
    /\ fn_pc = "ready"
    /\ fn_ret' = parse_json(fn_args.data, fn_args.relevance_threshold)
    /\ fn_pc' = "returned"
    /\ UNCHANGED <<fn_args, fn_ret2>>
    /\ UNCHANGED outsideCall

SpecParse == ParseInit /\ [][ParseJson]_vars

\* The positions of the parsed list whose relevance, 5 when the object has
\* none, reaches the threshold.
Surviving ==
    { i \in 1..Len(fn_args.data) :
        (IF "Relevance" \in DOMAIN fn_args.data[i]
         THEN fn_args.data[i].Relevance ELSE 5) >= fn_args.relevance_threshold }

\* C23: _parse_json returns exactly the objects whose relevance, 5 when the
\* field is absent, is at least the threshold, in the order of the reply;
\* of the scores 9, 5, 7, 2 with threshold 6 exactly 9 and 7 survive.
C23_ParseJsonThreshold ==
    fn_pc = "returned" =>
        LET at == SetToSortedSeq(Surviving)
        IN  /\ Len(fn_ret) = Len(at)
            /\ \A k \in 1..Len(at) :
                 /\ fn_ret[k].Headline = fn_args.data[at[k]].Headline
                 /\ fn_ret[k].Relevance >= fn_args.relevance_threshold
                 /\ "Relevance" \in DOMAIN fn_args.data[at[k]] =>
                        fn_ret[k].Relevance = fn_args.data[at[k]].Relevance
                 /\ "Relevance" \notin DOMAIN fn_args.data[at[k]] =>
                        fn_ret[k].Relevance = 5
            /\ (fn_args.data = ExampleReply /\ fn_args.relevance_threshold = 6) =>
                 [k \in 1..Len(fn_ret) |-> fn_ret[k].Relevance] = <<9, 7>>

\* The example has been parsed at threshold 6: the object scoring 5 and the
\* one scoring 2 are gone.
C23_Witness ==
    /\ fn_pc = "returned"
    /\ fn_args.data = ExampleReply
    /\ fn_args.relevance_threshold = 6
    /\ Len(fn_ret) = 2

(***************************************************************************)
(* search.py: _filter_by_date on its own.  _parse_date_str gives None, a   *)
(* naive datetime, or, for an ISO date that ends in Z or in an offset, an  *)
(* aware one; the cutoff is the naive utcnow() - days.                     *)
(***************************************************************************)

MaxDatedHits == 2

TRUSTED_SOURCES == {"Google Alert", "arXiv", "PapersWithCode", "RSS"}

\* What _parse_date_str makes of ArticleHit.published, with the age in days
\* of the date it found.
ParsedDates ==
    {[kind |-> "none", age |-> 0]}
    \cup [kind : {"naive"}, age : {6, 7, 8}]
    \cup [kind : {"aware"}, age : {6}]

DatedHits == [published : ParsedDates, source : {None, "Google Alert", "Tavily"}]

\* pub < cutoff, for a naive pub.
before_cutoff(pub, window) == pub.age > window

\* The loop of _filter_by_date over hs, filtered being what it has kept:
\* comparing an aware datetime with the naive cutoff raises TypeError.
RECURSIVE filter_by_date_from(_, _, _)
filter_by_date_from(hs, window, filtered) ==
    IF hs = <<>> THEN [raised |-> FALSE, value |-> filtered]
    ELSE LET h == Head(hs)
         IN  CASE h.published.kind = "none" ->
                    filter_by_date_from(Tail(hs), window,
                        IF h.source # None /\ h.source \in TRUSTED_SOURCES
                        THEN Append(filtered, h) ELSE filtered)
               [] h.published.kind = "aware" -> [raised |-> TRUE, value |-> <<>>]
               [] OTHER ->
                    filter_by_date_from(Tail(hs), window,
                        IF before_cutoff(h.published, window)
                        THEN filtered ELSE Append(filtered, h))

filter_by_date(hs, window) == filter_by_date_from(hs, window, <<>>)

DateFilterInit ==
    /\ fn_pc = "ready"
    /\ \E hs \in SeqsUpTo(DatedHits, MaxDatedHits) : fn_args = [hits |-> hs, days |-> 7]
    /\ fn_ret = <<>>
    /\ fn_ret2 = <<>>
    /\ DedupIdle
    /\ SectionIdle
    /\ MainIdle
    /\ LedgerIdle
    /\ RerankIdle
    /\ SummarizeIdle
    /\ HitsIdle
    /\ PoolIdle

FilterByDate ==
    /\ fn_pc = "ready"
    /\ fn_ret' = filter_by_date(fn_args.hits, fn_args.days)
    /\ fn_pc' = "returned"
    /\ UNCHANGED <<fn_args, fn_ret2>>
    /\ UNCHANGED outsideCall

SpecDateFilter == DateFilterInit /\ [][FilterByDate]_vars

\* The hits the claim keeps: dated not before now - days, or undated from a
\* trusted source.
InWindowOrTrusted(h) ==
    \/ h.published.kind # "none" /\ h.published.age <= fn_args.days
    \/ h.published.kind = "none" /\ h.source \in TRUSTED_SOURCES

\* C24: _filter_by_date returns, in input order, exactly the hits whose
\* parsed date is not before now - days and the undated hits of a trusted
\* source; hits dated before the cutoff and undated hits of an untrusted or
\* missing source are absent.
C24_FilterByDate ==
    fn_pc = "returned" =>
        /\ ~fn_ret.raised
        /\ fn_ret.value = SelectSeq(fn_args.hits, InWindowOrTrusted)

\* The same on the lists in which every date parsed without a timezone.
FilterByDateOnNaiveDates ==
    (fn_pc = "returned" /\ \A i \in 1..Len(fn_args.hits) :
                              fn_args.hits[i].published.kind # "aware") =>
        /\ ~fn_ret.raised
        /\ fn_ret.value = SelectSeq(fn_args.hits, InWindowOrTrusted)

(***************************************************************************)
(* search.py: _apply_time_decay on its own, on lists of distinct hits of   *)
(* the candidate table: 1, 3 and 6 days old and undated, hit 5 as old as   *)
(* hit 1.                                                                  *)
(***************************************************************************)

MaxDecayHits == 3

DecayHitIds == 1..5

\* The windows: none, one that floors the older hits to 0 and puts the
\* youngest at one half, the usual week, and one with a hit at half of it.
DecayWindows == {0, 2, 7, 12}

DecayInit ==
    /\ fn_pc = "ready"
    /\ \E n \in 0..MaxDecayHits : \E hs \in Arrangements(DecayHitIds, n) :
         \E d \in DecayWindows : fn_args = [hits |-> hs, days |-> d]
    /\ fn_ret = <<>>
    /\ fn_ret2 = <<>>
    /\ DedupIdle
    /\ SectionIdle
    /\ MainIdle
    /\ LedgerIdle
    /\ RerankIdle
    /\ SummarizeIdle
    /\ HitsIdle
    /\ PoolIdle

ApplyTimeDecay ==
    /\ fn_pc = "ready"
    /\ fn_ret' = apply_time_decay(fn_args.hits, fn_args.days)
    /\ fn_pc' = "returned"
    /\ UNCHANGED <<fn_args, fn_ret2>>
    /\ UNCHANGED outsideCall

SpecDecay == DecayInit /\ [][ApplyTimeDecay]_vars

\* max(0, 1 - age_days/window_days), one half for an undated hit, in units
\* of 1/(2 * window_days).
Freshness(h) ==
    IF HitAge(h) = Null THEN fn_args.days
    ELSE IF HitAge(h)[1] >= fn_args.days THEN 0
    ELSE 2 * (fn_args.days - HitAge(h)[1])

PositionIn(seq, x) == CHOOSE i \in 1..Len(seq) : seq[i] = x

\* C25: for a window of at least one day _apply_time_decay returns a
\* permutation of its input in descending order of freshness
\* max(0, 1 - age/window), an undated hit scoring one half: dated hits
\* younger than half the window come before the undated ones, those before
\* the dated hits older than half the window, and hits of equal score keep
\* their input order; hits 6 days, 1 day and 3 days old come out youngest
\* first for a 7-day window.
C25_TimeDecayOrder ==
    (fn_pc = "returned" /\ fn_args.days > 0) =>
        /\ Len(fn_ret) = Len(fn_args.hits)
        /\ SeqSet(fn_ret) = SeqSet(fn_args.hits)
        /\ \A i, j \in 1..Len(fn_ret) :
             i < j =>
               /\ Freshness(fn_ret[i]) >= Freshness(fn_ret[j])
               /\ Freshness(fn_ret[i]) = Freshness(fn_ret[j]) =>
                    PositionIn(fn_args.hits, fn_ret[i]) < PositionIn(fn_args.hits, fn_ret[j])
               /\ (HitAge(fn_ret[i]) = Null /\ HitAge(fn_ret[j]) # Null) =>
                    2 * HitAge(fn_ret[j])[1] >= fn_args.days
               /\ (HitAge(fn_ret[i]) # Null /\ HitAge(fn_ret[j]) = Null) =>
                    2 * HitAge(fn_ret[i])[1] <= fn_args.days
        /\ (fn_args.hits = <<4, 1, 2>> /\ fn_args.days = 7) => fn_ret = <<1, 2, 4>>

\* A week's window has moved the youngest hit to the front and left the
\* undated one before the hit that is 6 days old.
C25_Witness ==
    /\ fn_pc = "returned"
    /\ fn_args = [hits |-> <<3, 4, 5>>, days |-> 7]
    /\ fn_ret = <<5, 3, 4>>

(***************************************************************************)
(* assemble.py: _add_utm.  A URL is its part before the query and its      *)
(* query, a list of <<key, value>> pairs; a pair written without a value   *)
(* ("?slug", "ref=") has the value "".                                     *)
(***************************************************************************)

MaxQueryParams == 2

QueryKeys == {"foo", "utm_source", "utm_content"}

QueryValues == {"", "x"}

UtmUrls ==
    { [base |-> "https://example.com/a", query |-> q] :
        q \in SeqsUpTo(QueryKeys \X QueryValues, MaxQueryParams) }
    \cup { [base |-> "", query |-> <<>>] }

UtmSectionKeys == {"trending", "global"}

UtmRunDates == {"2026-02-19", "2026-03-01"}

\* parse_qs(query): the keys in order of first appearance, each with the
\* list of its values; pairs with a blank value are left out
\* (keep_blank_values is False).
RECURSIVE parse_qs(_)
parse_qs(query) ==
    IF query = <<>> THEN <<>>
    ELSE LET k == query[1][1]
             mine == SelectSeq(query, LAMBDA kv : kv[1] = k /\ kv[2] # "")
             rest == SelectSeq(query, LAMBDA kv : kv[1] # k)
         IN  (IF mine = <<>> THEN <<>>
              ELSE << <<k, [i \in 1..Len(mine) |-> mine[i][2]]>> >>)
             \o parse_qs(rest)

\* urlencode(params, doseq=True): a pair for every value of every key.
RECURSIVE urlencode(_)
urlencode(params) ==
    IF params = <<>> THEN <<>>
    ELSE [i \in 1..Len(params[1][2]) |-> <<params[1][1], params[1][2][i]>>]
         \o urlencode(Tail(params))

utm_params(section_key, run_date) ==
    << <<"utm_source", "ai_this_week">>, <<"utm_medium", "email">>,
       <<"utm_campaign", run_date>>, <<"utm_content", section_key>> >>

\* _add_utm: the UTM parameters the query lacks are added after the others.
add_utm(url, section_key, run_date) ==
    IF url.base = "" THEN url
    ELSE LET existing_params == parse_qs(url.query)
             present == { existing_params[i][1] : i \in 1..Len(existing_params) }
             missing == SelectSeq(utm_params(section_key, run_date),
                                  LAMBDA kv : kv[1] \notin present)
             added == [i \in 1..Len(missing) |-> <<missing[i][1], <<missing[i][2]>> >>]
         IN  [url EXCEPT !.query = urlencode(existing_params \o added)]

UtmInit ==
    /\ fn_pc = "ready"
    /\ \E url \in UtmUrls, k \in UtmSectionKeys :
         fn_args = [url |-> url, section_key |-> k, run_date |-> "2026-02-19"]
    /\ fn_ret = <<>>
    /\ fn_ret2 = <<>>
    /\ DedupIdle
    /\ SectionIdle
    /\ MainIdle
    /\ LedgerIdle
    /\ RerankIdle
    /\ SummarizeIdle
    /\ HitsIdle
    /\ PoolIdle

AddUtm ==
    /\ fn_pc = "ready"
    /\ fn_ret' = add_utm(fn_args.url, fn_args.section_key, fn_args.run_date)
    /\ fn_pc' = "returned"
    /\ UNCHANGED <<fn_args, fn_ret2>>
    /\ UNCHANGED outsideCall

\* _add_utm applied to its own output, for any section and date.
AddUtmAgain ==
    /\ fn_pc = "returned"
    /\ \E k \in UtmSectionKeys, d \in UtmRunDates : fn_ret2' = add_utm(fn_ret, k, d)
    /\ fn_pc' = "again"
    /\ UNCHANGED <<fn_args, fn_ret>>
    /\ UNCHANGED outsideCall

UtmNext == AddUtm \/ AddUtmAgain

SpecUtm == UtmInit /\ [][UtmNext]_vars

IsUtm(k) == k \in {"utm_source", "utm_medium", "utm_campaign", "utm_content"}

\* The values a query gives a key, in order.
ValuesOf(query, k) ==
    LET mine == SelectSeq(query, LAMBDA kv : kv[1] = k)
    IN  [i \in 1..Len(mine) |-> mine[i][2]]

\* What C26 says of a URL that is not empty.
AddUtmContract ==
    /\ \A k \in QueryKeys :
         (\E i \in 1..Len(fn_args.url.query) : fn_args.url.query[i][1] = k) =>
            ValuesOf(fn_ret.query, k) = ValuesOf(fn_args.url.query, k)
    /\ fn_args.url.query = <<>> =>
         fn_ret.query = utm_params(fn_args.section_key, fn_args.run_date)
    /\ fn_ret.base = fn_args.url.base
    /\ fn_pc = "again" => fn_ret2 = fn_ret

\* C26: _add_utm leaves the value of every utm_* parameter the URL carries
\* as it is, keeps every other query parameter, adds to a bare URL exactly
\* utm_source, utm_medium, utm_campaign and utm_content, and applied to its
\* own output, for the same or another section and date, returns it
\* unchanged.
C26_AddUtm ==
    (fn_pc \in {"returned", "again"} /\ fn_args.url.base # "") => AddUtmContract

\* The same on the URLs whose parameters all have a value.
AddUtmOnValuedParams ==
    (/\ fn_pc \in {"returned", "again"}
     /\ fn_args.url.base # ""
     /\ \A i \in 1..Len(fn_args.url.query) : fn_args.url.query[i][2] # "")
        => AddUtmContract

(***************************************************************************)
(* runner.py: the curation passes of process_section on their own, on      *)
(* lists of distinct candidates of the table; candidates 5 to 8 repeat the *)
(* fields of 1 to 4, but for the keyword count of candidate 6.             *)
(***************************************************************************)

MaxCuratedHits == 3

CuratedHitIds == 1..8

\* current_days: none, one that ties the older hits at 0, the usual week.
CurationWindows == {0, 2, 7}

CurateInit ==
    /\ fn_pc = "ready"
    /\ \E n \in 0..MaxCuratedHits : \E hs \in Arrangements(CuratedHitIds, n) :
         \E d \in CurationWindows, reject, boost \in BOOLEAN :
            fn_args = [hits |-> hs, cfg |-> SectionConfig(3, Some(d), 6, reject, boost)]
    /\ fn_ret = <<>>
    /\ fn_ret2 = <<>>
    /\ DedupIdle
    /\ SectionIdle
    /\ MainIdle
    /\ LedgerIdle
    /\ RerankIdle
    /\ SummarizeIdle
    /\ HitsIdle
    /\ PoolIdle

CurateHits ==
    /\ fn_pc = "ready"
    /\ fn_ret' = curate(fn_args.hits, fn_args.cfg)
    /\ fn_pc' = "returned"
    /\ UNCHANGED <<fn_args, fn_ret2>>
    /\ UNCHANGED outsideCall

SpecCurate == CurateInit /\ [][CurateHits]_vars

\* The candidates left by the reject keywords, in collection order.
FilteredCandidates ==
    SelectSeq(fn_args.hits, LAMBDA h : ~(fn_args.cfg.reject_keywords /\ HitRejected(h)))

\* The keys of the claim's order, smaller first: freshness (in units of
\* 1/(2 * window); the same for all when the window is not positive, where
\* the pass returns its input), source priority, source-quality boost,
\* keyword matches (none without boost keywords), position in collection.
RankKey(h) ==
    LET d == fn_args.cfg.days[1]
    IN << IF d <= 0 THEN 0
          ELSE IF HitAge(h) = Null THEN 0 - d
          ELSE IF HitAge(h)[1] >= d THEN 0
          ELSE 0 - 2 * (d - HitAge(h)[1]),
          IF HitSource(h) = "Google Alert" THEN 0
          ELSE IF HitSource(h) \in {"RSS", "arXiv", "PapersWithCode"} THEN 1 ELSE 2,
          0 - HitQualityBoost(h),
          IF fn_args.cfg.boost_keywords THEN 0 - HitBoostCount(h) ELSE 0,
          PositionIn(FilteredCandidates, h) >>

\* Lexicographic order of two keys.
LexLess(a, b) ==
    \E k \in 1..Len(a) : a[k] < b[k] /\ \A m \in 1..(k - 1) : a[m] = b[m]

\* C27: the list handed to verification is a permutation of the filtered
\* candidates in lexicographic order of freshness (descending), source
\* priority (Google Alert, then RSS/arXiv/PapersWithCode, then the rest),
\* source-quality boost (descending), boost-keyword matches (descending)
\* and collection order.
C27_LexicographicRanking ==
    fn_pc = "returned" =>
        /\ Len(fn_ret) = Len(FilteredCandidates)
        /\ SeqSet(fn_ret) = SeqSet(FilteredCandidates)
        /\ \A i, j \in 1..Len(fn_ret) :
             i < j => LexLess(RankKey(fn_ret[i]), RankKey(fn_ret[j]))

\* Three web-search hits floored to freshness 0 by a 2-day window: the
\* quality boost puts 6 and 2 before 4, the keyword matches put 2 before 6.
C27_Witness ==
    /\ fn_pc = "returned"
    /\ fn_args.hits = <<4, 6, 2>>
    /\ fn_args.cfg.days = Some(2)
    /\ fn_args.cfg.boost_keywords
    /\ fn_ret = <<2, 6, 4>>

(***************************************************************************)
(* runner.py: process_hits.  The tasks are those of the part above, one    *)
(* per submitted candidate, in ranked order; the main thread takes the     *)
(* futures as they complete.                                               *)
(***************************************************************************)

\* ThreadPoolExecutor(max_workers=10)
max_workers == 10

PoolLimits == {1, 2}

\* The tasks a worker thread is executing.
Executing == { t \in Tasks : tpc[t] \notin {"start", "done"} }

\* The candidates submitted: as above, an empty URL only for the first
\* one, without a snippet.
SubmittedHitsOf(t) ==
    { h \in HitsOf(t) : h.url = <<>> => (t = 1 /\ h.snippet.len = 0) }

ProcessHitsInit ==
    /\ hit \in [Tasks -> UNION { SubmittedHitsOf(t) : t \in Tasks }]
    /\ \A t \in Tasks : hit[t] \in SubmittedHitsOf(t)
    /\ tpc = [t \in Tasks |-> "start"]
    /\ tverify = [t \in Tasks |-> "pending"]
    /\ treason = [t \in Tasks |-> <<>>]
    /\ tresult = [t \in Tasks |-> Null]
    /\ log_lock = 0
    /\ skip_log = <<>>
    /\ tmp_log = <<>>
    /\ ph_pc = "collecting"
    /\ ph_limit \in { l \in PoolLimits : MaxTasks <= 3 * l }
    /\ ph_consumed = {}
    /\ ph_verified = <<>>
    /\ ph_ret = <<>>
    /\ DedupIdle
    /\ SectionIdle
    /\ MainIdle
    /\ LedgerIdle
    /\ RerankIdle
    /\ SummarizeIdle
    /\ CallIdle

\* A step of a worker thread; a task is taken up only by a free worker.
WorkerStep(t) ==
    /\ tpc[t] = "start" => Cardinality(Executing) < max_workers
    /\ \/ MissingUrl(t)
       \/ VerifyLink(t)
       \/ Scrape(t)
       \/ EnterPrimary(t)
       \/ WritePrimary(t)
       \/ EnterFallback(t)
       \/ WriteFallback(t)

\* The body of the as_completed loop for the finished future of task t: a
\* truthy result is appended, and the loop is left at limit results.
TakeCompleted(t) ==
    /\ ph_pc = "collecting"
    /\ t \notin ph_consumed
    /\ tpc[t] = "done"
    /\ ph_consumed' = ph_consumed \cup {t}
    /\ LET appended == IF tresult[t] # Null THEN Append(ph_verified, t)
                       ELSE ph_verified
       IN /\ ph_verified' = appended
          /\ ph_pc' = IF tresult[t] # Null /\ Len(appended) >= ph_limit
                      THEN "shutdown" ELSE "collecting"
    /\ UNCHANGED <<ph_limit, ph_ret>>
    /\ UNCHANGED hitsVars
    /\ UNCHANGED outsidePool

\* as_completed has yielded every future.
LoopEnds ==
    /\ ph_pc = "collecting"
    /\ ph_consumed = Tasks
    /\ ph_pc' = "shutdown"
    /\ UNCHANGED <<ph_limit, ph_consumed, ph_verified, ph_ret>>
    /\ UNCHANGED hitsVars
    /\ UNCHANGED outsidePool

\* The with block is left through shutdown(wait=True).
pool_drained_without_waiting == TRUE

pool_drained == \A t \in Tasks : tpc[t] = "done"

\* return verified[:limit], once the executor has shut down.
ReturnVerified ==
    /\ ph_pc = "shutdown"
    /\ pool_drained
    /\ ph_ret' = Prefix(ph_verified, ph_limit)
    /\ ph_pc' = "returned"
    /\ UNCHANGED <<ph_limit, ph_consumed, ph_verified>>
    /\ UNCHANGED hitsVars
    /\ UNCHANGED outsidePool

ProcessHitsNext ==
    \/ \E t \in Tasks : WorkerStep(t)
    \/ \E t \in Tasks : TakeCompleted(t)
    \/ LoopEnds
    \/ ReturnVerified

SpecProcessHits == ProcessHitsInit /\ [][ProcessHitsNext]_vars

\* The candidates whose verification gave an article, in ranked order.
Verifiable == SetToSortedSeq({ t \in Tasks : tresult[t] # Null })

C29_AllTasksFinishedOnReturn ==
    /\ Cardinality(Tasks) <= 3 * ph_limit
    /\ Cardinality(Executing) <= max_workers
    /\ ph_pc = "returned" =>
         /\ \A t \in Tasks : tpc[t] = "done"
         /\ Executing = {}
         /\ Writing = {}
         /\ log_lock = 0

\* process_hits has returned after leaving the loop early: the future of a
\* task that logged a skip was never taken by the loop.
C29_Witness ==
    /\ ph_pc = "returned"
    /\ Len(ph_ret) = ph_limit
    /\ \E t \in Tasks \ ph_consumed : RecordsOf(t) = 1

====
